---------------------------- MODULE Spec2Model ----------------------------
(***************************************************************************)
(* Homomorphic Chebyshev polynomial evaluator of the ckks package          *)
(* (src/ckks/chebyshev_evaluation.go), modelled as a step machine.         *)
(*                                                                         *)
(* Numbers.  complex128 values are modelled by exact complex rationals: a  *)
(* rational is a reduced pair <<n, d>> with d > 0, a complex number a      *)
(* record [re, im] of rationals.  uint64 arithmetic keeps its width        *)
(* (Shl64, Sub64, Lt64).  Magnitudes are scaled down so that they fit the *)
(* model checker's integers: Tol stands for the literal 1e-14 of the       *)
(* source, and the scale and the moduli are small powers of two.           *)
(*                                                                         *)
(* Ciphertexts.  A ciphertext is a record [level, scale, val, err]: val is *)
(* the value it decodes to (exact arithmetic, no noise), err is "" or the  *)
(* name of the fatal condition (a Go panic) that the operation producing   *)
(* it raised.  Every operation propagates the err of its operands in the   *)
(* order the code evaluates them, so the first panic wins.  A missing map  *)
(* entry is the nil pointer NilCt.                                         *)
(***************************************************************************)
EXTENDS Integers, Sequences, FiniteSets, TLC

VARIABLES
    params,     \* evaluator.params / ckksContext: [Scale, Qi]
    op,         \* the input ciphertext of the evaluation
    cheby,      \* the ChebyshevInterpolation: [coeffs, maxDeg, a, b]
    nconst,     \* the constant n of EvaluateChebySpecial
    pc,         \* position of the running evaluation
    variant,    \* entry point of the current (or last) evaluation
    C,          \* the power-basis hash table map[uint64]*Ciphertext
    drv,        \* locals of evalCheby: [logDegree, logSplit, i]
    pbStack,    \* call stack of computePowerBasisCheby: frames [n, st]
    rcStack,    \* call stack of recurseCheby
    ret,        \* value returned by the last recurseCheby call
    result,     \* ciphertext returned by the last finished evaluation
    err,        \* the panic that ended the program, "" if none
    ops,        \* counters of the collaborator operations performed
    computed,   \* per key, how many times C[key] was computed
    consumed,   \* per entry point, levels consumed by its finished call
    fn          \* input and output of a directly applied pure function

vars == <<params, op, cheby, nconst, pc, variant, C, drv, pbStack, rcStack,
          ret, result, err, ops, computed, consumed, fn>>

---------------------------------------------------------------------------
(* Bounds of the model.                                                    *)

MaxDeg == 15

MaxSplitDeg == 8

MaxLevel == 10

---------------------------------------------------------------------------
(* uint64 arithmetic.                                                      *)

\* uint64 values that occur in the model are either small or the wrapped
\* value of 0 - 1; MaxUint64 stands for 2^64 - 1 and Shift64 for the width.
Shift64 == 64

MaxUint64 == -1

IsHuge(u) == u = MaxUint64

\* x - y on uint64 (x, y small): wraps below zero.
Sub64(x, y) == IF x >= y THEN x - y ELSE MaxUint64

RECURSIVE Pow2(_)
Pow2(k) == IF k = 0 THEN 1 ELSE 2 * Pow2(k - 1)

\* x << s on uint64 for a small x: 0 once the shift count reaches the width
\* (Go shifts are not reduced modulo the width).
Shl64(x, s) ==
    IF IsHuge(s) \/ s >= Shift64 THEN 0
    ELSE IF x = 0 THEN 0
    ELSE x * Pow2(s)

\* a < b on uint64 where either may be the huge value.
Lt64(a, b) ==
    IF IsHuge(a) THEN FALSE
    ELSE IF IsHuge(b) THEN TRUE
    ELSE a < b

\* bits.Len64
RECURSIVE Len64(_)
Len64(x) == IF x = 0 THEN 0 ELSE 1 + Len64(x \div 2)

---------------------------------------------------------------------------
(* Exact rationals and complex rationals.                                  *)

Abs(x) == IF x < 0 THEN -x ELSE x

RECURSIVE GCD(_, _)
GCD(a, b) == IF b = 0 THEN a ELSE GCD(b, a % b)

Q(n, d) ==
    LET g == GCD(Abs(n), Abs(d))
        s == IF d < 0 THEN -1 ELSE 1
    IN  <<(s * n) \div g, (s * d) \div g>>

QZero == <<0, 1>>
QOne == <<1, 1>>
QInt(k) == <<k, 1>>
QAdd(x, y) ==
    LET g == GCD(x[2], y[2])
    IN  Q(x[1] * (y[2] \div g) + y[1] * (x[2] \div g), (x[2] \div g) * y[2])
QNeg(x) == <<-x[1], x[2]>>
QSub(x, y) == QAdd(x, QNeg(y))
QMul(x, y) ==
    LET g1 == GCD(Abs(x[1]), y[2])
        g2 == GCD(Abs(y[1]), x[2])
    IN  Q((x[1] \div g1) * (y[1] \div g2), (x[2] \div g2) * (y[2] \div g1))
QDiv(x, y) == Q(x[1] * y[2], x[2] * y[1])
QLt(x, y) == x[1] * y[2] < y[1] * x[2]
QAbs(x) == <<Abs(x[1]), x[2]>>
QMax(x, y) == IF QLt(x, y) THEN y ELSE x

\* int64(x) of a float64 x: truncation toward zero.
QTrunc(x) == IF x[1] >= 0 THEN x[1] \div x[2] ELSE -((-x[1]) \div x[2])

Cx(r, i) == [re |-> r, im |-> i]
CZero == Cx(QZero, QZero)
COne == Cx(QOne, QZero)
CReal(r) == Cx(r, QZero)
CInt(k) == Cx(QInt(k), QZero)
CAdd(x, y) == Cx(QAdd(x.re, y.re), QAdd(x.im, y.im))
CSub(x, y) == Cx(QSub(x.re, y.re), QSub(x.im, y.im))
CNeg(x) == Cx(QNeg(x.re), QNeg(x.im))
CMul(x, y) ==
    Cx(QSub(QMul(x.re, y.re), QMul(x.im, y.im)),
       QAdd(QMul(x.re, y.im), QMul(x.im, y.re)))
CScale(x, q) == Cx(QMul(x.re, q), QMul(x.im, q))

---------------------------------------------------------------------------
(* Ciphertexts and the ciphertext-arithmetic collaborator (the ckks         *)
(* evaluator, which is not part of the sources at hand).                    *)

Ct(l, s, v) == [level |-> l, scale |-> s, val |-> v, err |-> ""]

Failed(e) == [level |-> 0, scale |-> QOne, val |-> CZero, err |-> e]

\* A nil *Ciphertext: every use of it dereferences the nil pointer.
NilCt == Failed("NilPointer")

NoCt == Failed("None")

Min(x, y) == IF x < y THEN x ELSE y
Max(x, y) == IF x < y THEN y ELSE x

\* params.Qi[level]
QiAt(level) == QInt(params.Qi[level + 1])

\* C[k] of a Go map: the nil pointer when the key is absent.
Get(CC, k) == IF k \in DOMAIN CC THEN CC[k] ELSE NilCt

NewCiphertext(level, scale) == Ct(level, scale, CZero)

\* First failed operand, in evaluation order.
Poison(x, y) == IF x.err # "" THEN x ELSE y

MulRelin(x, y) ==
    IF x.err # "" \/ y.err # "" THEN Poison(x, y)
    ELSE Ct(Min(x.level, y.level), QMul(x.scale, y.scale), CMul(x.val, y.val))

Rescale(x) ==
    IF x.err # "" THEN x
    ELSE IF x.level = 0 THEN Failed("LevelExhausted")
    ELSE Ct(x.level - 1, QDiv(x.scale, QiAt(x.level)), x.val)

Add(x, y) ==
    IF x.err # "" \/ y.err # "" THEN Poison(x, y)
    ELSE Ct(Min(x.level, y.level), QMax(x.scale, y.scale), CAdd(x.val, y.val))

Sub(x, y) ==
    IF x.err # "" \/ y.err # "" THEN Poison(x, y)
    ELSE Ct(Min(x.level, y.level), QMax(x.scale, y.scale), CSub(x.val, y.val))

AddConst(x, c) ==
    IF x.err # "" THEN x ELSE Ct(x.level, x.scale, CAdd(x.val, c))

\* The constant is encoded at the modulus of the current level.
MultByConst(x, c) ==
    IF x.err # "" THEN x
    ELSE Ct(x.level, QMul(x.scale, QiAt(x.level)), CMul(x.val, c))

\* out := x * (cReal + i*cImag) on the plaintext content; out keeps the
\* scale it was allocated with, so the value it decodes to is rescaled by
\* x.scale / out.scale.
multByGaussianInteger(x, cReal, cImag, out) ==
    IF x.err # "" THEN x
    ELSE Ct(out.level, out.scale,
            CScale(CMul(x.val, Cx(QInt(cReal), QInt(cImag))),
                   QDiv(x.scale, out.scale)))

---------------------------------------------------------------------------
(* poly and the pure functions of the evaluator.                            *)

\* poly.degree(): uint64(len(coeffs) - 1)
degree(coeffs) == Sub64(Len(coeffs), 1)

Poly(coeffs, maxDeg) == [coeffs |-> coeffs, maxDeg |-> maxDeg]

\* The tolerance literal 1e-14 of the leaf evaluator, in model magnitudes.
Tol == <<1, 16>>

\* The test with the tolerance forgotten: every nonzero coefficient counts.
AboveZero(c) == c # CZero

\* math.Abs(real(c)) > 1e-14 || math.Abs(imag(c)) > 1e-14
AboveTol(c) == QLt(Tol, QAbs(c.re)) \/ QLt(Tol, QAbs(c.im))

\* Coefficient k (0-based) of a coefficient slice, zero when k is out of it.
Coef(coeffs, k) == IF k + 1 \in DOMAIN coeffs THEN coeffs[k + 1] ELSE CZero

\* The loop of splitCoeffsCheby (for i, j := split+1, 1; i < degree+1):
\* acc = [q, r, err]; the index split-j wraps around once j exceeds split.
RECURSIVE splitLoop(_, _, _, _, _)
splitLoop(coeffs, split, i, j, acc) ==
    IF ~(i < degree(coeffs) + 1) THEN acc
    ELSE IF IsHuge(Sub64(split, j))
    THEN [acc EXCEPT !.err = "IndexOutOfRange"]
    ELSE splitLoop(coeffs, split, i + 1, j + 1,
            [acc EXCEPT
                !.q[i - split + 1] = CScale(coeffs[i + 1], QInt(2)),
                !.r[split - j + 1] = CSub(acc.r[split - j + 1], coeffs[i + 1])])

\* splitCoeffsCheby without the statement of line 165: the remainder is the
\* plain prefix of the coefficients, nothing is folded back into it.
splitWithoutFold(coeffs, maxDeg, split) ==
    LET deg == degree(coeffs)
    IN  IF IsHuge(deg) \/ split >= deg + 1 \/ deg > 2 * split
        THEN [err |-> "IndexOutOfRange", q |-> Poly(<<>>, 0), r |-> Poly(<<>>, 0)]
        ELSE [err |-> "",
              q |-> Poly([k \in 1..(deg - split + 1) |->
                            IF k = 1 THEN coeffs[split + 1]
                            ELSE CScale(coeffs[split + k], QInt(2))], maxDeg),
              r |-> Poly([k \in 1..split |-> coeffs[k]], split - 1)]

\* splitCoeffsCheby giving the remainder the degree of the quotient as its
\* maxDeg.
splitRemainderQuotientDegree(coeffs, maxDeg, split) ==
    LET deg == degree(coeffs)
        bad == [err |-> "IndexOutOfRange", q |-> Poly(<<>>, 0), r |-> Poly(<<>>, 0)]
        r0 == [k \in 1..split |-> coeffs[k]]
        q0 == [k \in 1..(deg - split + 1) |->
                  IF k = 1 THEN coeffs[split + 1] ELSE CZero]
        out == splitLoop(coeffs, split, split + 1, 1,
                         [q |-> q0, r |-> r0, err |-> ""])
    IN  IF IsHuge(deg) \/ split >= deg + 1 THEN bad
        ELSE IF out.err # "" THEN bad
        ELSE [err |-> "", q |-> Poly(out.q, maxDeg),
              r |-> Poly(out.r, deg - split)]

\* splitCoeffsCheby giving the quotient its own degree as its maxDeg instead
\* of the maxDeg of the polynomial that is split.
splitQuotientOwnDegree(coeffs, maxDeg, split) ==
    LET deg == degree(coeffs)
        bad == [err |-> "IndexOutOfRange", q |-> Poly(<<>>, 0), r |-> Poly(<<>>, 0)]
        rMaxDeg == IF maxDeg = deg THEN Sub64(split, 1)
                   ELSE Sub64(maxDeg, deg - split + 1)
        r0 == [k \in 1..split |-> coeffs[k]]
        q0 == [k \in 1..(deg - split + 1) |->
                  IF k = 1 THEN coeffs[split + 1] ELSE CZero]
        out == splitLoop(coeffs, split, split + 1, 1,
                         [q |-> q0, r |-> r0, err |-> ""])
    IN  IF IsHuge(deg) \/ split >= deg + 1 THEN bad
        ELSE IF out.err # "" THEN bad
        ELSE [err |-> "", q |-> Poly(out.q, deg - split),
              r |-> Poly(out.r, rMaxDeg)]

splitCoeffsCheby(coeffs, maxDeg, split) ==
    LET deg == degree(coeffs)
        bad == [err |-> "IndexOutOfRange", q |-> Poly(<<>>, 0), r |-> Poly(<<>>, 0)]
        rMaxDeg == IF maxDeg = deg THEN Sub64(split, 1)
                   ELSE Sub64(maxDeg, deg - split + 1)
        r0 == [k \in 1..split |-> coeffs[k]]
        q0 == [k \in 1..(deg - split + 1) |->
                  IF k = 1 THEN coeffs[split + 1] ELSE CZero]
        out == splitLoop(coeffs, split, split + 1, 1,
                         [q |-> q0, r |-> r0, err |-> ""])
    IN  IF IsHuge(deg) \/ split > deg + 1 THEN bad    \* coeffs[i], i < split
        ELSE IF split = deg + 1 THEN bad              \* coeffsq.coeffs[0]
        ELSE IF out.err # "" THEN bad
        ELSE [err |-> "", q |-> Poly(out.q, maxDeg), r |-> Poly(out.r, rMaxDeg)]

---------------------------------------------------------------------------
(* evaluatePolyFromChebyBasis: the leaf evaluator.                          *)

\* Is coefficient key of the leaf used (above the tolerance)?
leafUses(coeffs, key) == AboveTol(coeffs[key + 1])

\* int64(real(c) * const_scale), int64(imag(c) * const_scale)
gaussianInteger(c, const_scale) ==
    [re |-> QTrunc(QMul(c.re, const_scale)),
     im |-> QTrunc(QMul(c.im, const_scale))]

\* The loop for key := degree; key > 0; key--.  acc = [ct, nGauss, nAdd].
RECURSIVE leafLoop(_, _, _, _, _, _)
leafLoop(target_scale, current_qi, coeffs, CC, key, acc) ==
    IF key = 0 \/ acc.ct.err # "" THEN acc
    ELSE IF ~leafUses(coeffs, key)
    THEN leafLoop(target_scale, current_qi, coeffs, CC, key - 1, acc)
    ELSE
      LET ck == Get(CC, key)
          ct_scale == QMul(target_scale, current_qi)
          const_scale == QDiv(ct_scale, ck.scale)
          g == gaussianInteger(coeffs[key + 1], const_scale)
          tmp == multByGaussianInteger(ck, g.re, g.im,
                                       NewCiphertext(ck.level, ct_scale))
      IN  IF ck.err # ""
          THEN [acc EXCEPT !.ct = ck]
          ELSE leafLoop(target_scale, current_qi, coeffs, CC, key - 1,
                        [ct |-> Add(acc.ct, tmp),
                         nGauss |-> acc.nGauss + 1,
                         nAdd |-> acc.nAdd + 1,
                         nAddConst |-> acc.nAddConst])

evaluatePolyFromChebyBasis(target_scale, coeffs, CC) ==
    LET deg == degree(coeffs)
        cdeg == Get(CC, deg)                       \* C[coeffs.degree()]
        current_qi == QiAt(cdeg.level)
        ct_scale == QMul(target_scale, current_qi)
        first == IF deg # 0 THEN cdeg ELSE Get(CC, 1)
        res0 == NewCiphertext(first.level, ct_scale)
        useC0 == AboveTol(coeffs[1])
        res1 == IF useC0 THEN AddConst(res0, coeffs[1]) ELSE res0
        looped == leafLoop(target_scale, current_qi, coeffs, CC, deg,
                           [ct |-> res1, nGauss |-> 0, nAdd |-> 0,
                            nAddConst |-> IF useC0 THEN 1 ELSE 0])
    IN  IF cdeg.err # "" THEN [ct |-> cdeg, nGauss |-> 0, nAdd |-> 0, nAddConst |-> 0]
        ELSE IF first.err # "" THEN [ct |-> first, nGauss |-> 0, nAdd |-> 0, nAddConst |-> 0]
        ELSE [looped EXCEPT !.ct = Rescale(looped.ct)]

---------------------------------------------------------------------------
(* computePowerBasisCheby: the indices and the computation of one entry.    *)

\* a without the rounding up: n >> 1.
pbAFloor(n) == n \div 2

\* a := uint64(math.Ceil(float64(n) / 2))
pbA(n) == (n + 1) \div 2

\* b := n >> 1
pbB(n) == n \div 2

\* c := uint64(math.Abs(float64(a) - float64(b)))
pbC(n) == Abs(pbA(n) - pbB(n))

\* The entry without the doubling of line 112: T_a * T_b - T_c.
powerBasisEntryNoDouble(n, CC) ==
    LET resc == Rescale(MulRelin(Get(CC, pbA(n)), Get(CC, pbB(n))))
    IN  IF pbC(n) = 0 THEN AddConst(resc, CInt(-1))
        ELSE Sub(resc, Get(CC, pbC(n)))

\* The entry with a rescale that is skipped when no level is left: the
\* product is kept at level 0 with its scale not divided.
powerBasisEntryKeepsLevel(n, CC) ==
    LET prod == MulRelin(Get(CC, pbA(n)), Get(CC, pbB(n)))
        resc == IF prod.err = "" /\ prod.level = 0 THEN prod ELSE Rescale(prod)
        dbl == Add(resc, resc)
    IN  IF pbC(n) = 0 THEN AddConst(dbl, CInt(-1))
        ELSE Sub(dbl, Get(CC, pbC(n)))

\* The entry without the rescale of line 109.
powerBasisEntryNoRescale(n, CC) ==
    LET prod == MulRelin(Get(CC, pbA(n)), Get(CC, pbB(n)))
        dbl == Add(prod, prod)
    IN  IF pbC(n) = 0 THEN AddConst(dbl, CInt(-1))
        ELSE Sub(dbl, Get(CC, pbC(n)))

\* C[n] = MulRelinNew(C[a], C[b]); Rescale; Add(C[n], C[n]); then
\* AddConst(-1) when c = 0, Sub(C[n], C[c]) otherwise.
powerBasisEntry(n, CC) ==
    LET prod == MulRelin(Get(CC, pbA(n)), Get(CC, pbB(n)))
        resc == Rescale(prod)
        dbl == Add(resc, resc)
    IN  IF pbC(n) = 0 THEN AddConst(dbl, CInt(-1))
        ELSE Sub(dbl, Get(CC, pbC(n)))

---------------------------------------------------------------------------
(* recurseCheby: the merge of the two halves.                               *)

\* The merge without the rescale that follows the addition of equal levels.
mergeChebyNoRescale(res, tmp, nextPower, CC) ==
    LET prod == MulRelin(res, Get(CC, nextPower))
    IN  IF prod.err # "" THEN prod
        ELSE IF prod.level > tmp.level
        THEN Add(Rescale(prod), tmp)
        ELSE Add(prod, tmp)

\* MulRelin(res, C[nextPower]); then Rescale and Add in the order the
\* levels of res and tmp decide.
mergeCheby(res, tmp, nextPower, CC) ==
    LET prod == MulRelin(res, Get(CC, nextPower))
    IN  IF prod.err # "" THEN prod
        ELSE IF prod.level > tmp.level
        THEN Add(Rescale(prod), tmp)
        ELSE Rescale(Add(prod, tmp))

\* nextPower <<= 1 on uint64 (the values that occur are 0 or small).
shiftNextPower(nextPower) == Shl64(nextPower, 1)

\* The entry points: the affine map into C[1].
\* MultByConst(2/(b-a)); AddConst((-a-b)/(b-a)); Rescale.
normalize(ct, a, b, n) ==
    LET ba == QSub(b, a)
        k1 == QDiv(QInt(2), QMul(ba, n))
        k0 == QDiv(QSub(QNeg(a), b), ba)
    IN  Rescale(AddConst(MultByConst(ct, CReal(k1)), CReal(k0)))

---------------------------------------------------------------------------
(* Inputs of an evaluation.                                                 *)

\* Coefficient patterns: coefficient k of the polynomial of each pattern.
Tiny == <<1, 256>>     \* stands for 1e-15: below the tolerance

PatternCoef(pat, k) ==
    CASE pat = "ints"  -> CInt((k % 3) + 1)
      [] pat = "mixed" ->
            CASE k % 4 = 0 -> Cx(QInt(2), QInt(1))
              [] k % 4 = 1 -> Cx(Tiny, QZero)
              [] k % 4 = 2 -> Cx(Q(-3, 2), Tiny)
              [] OTHER     -> Cx(QNeg(Tol), Tol)
      [] pat = "edge"  ->
            \* odd coefficients are half the tolerance: a quotient of
            \* splitCoeffsCheby doubles them to exactly the tolerance
            IF k % 2 = 0 THEN CInt(1) ELSE Cx(Q(1, 32), QZero)
      [] OTHER -> Cx(Tiny, QNeg(Tiny))

Patterns == {"ints", "mixed", "edge"}

PatternPoly(pat, D) == [k \in 1..(D + 1) |-> PatternCoef(pat, k - 1)]

\* 0.5 + 0.5*T_1 + 0.25*T_3
ScenarioPoly == <<CReal(Q(1, 2)), CReal(Q(1, 2)), CZero, CReal(Q(1, 4))>>

\* The ChebyshevInterpolation of a coefficient vector on [a, b]: at the top
\* maxDeg is the degree.
Cheby(coeffs, a, b) ==
    [coeffs |-> coeffs, maxDeg |-> degree(coeffs), a |-> a, b |-> b]

\* Input points: [x, a, b], so that t = (2x - a - b)/(b - a).
Points ==
    { [x |-> Q(1, 2), a |-> QInt(-1), b |-> QInt(1)],     \* t = 1/2
      [x |-> QInt(2), a |-> QInt(0), b |-> QInt(4)] }     \* t = 0

Chains == { <<4, 4, 4, 4, 4, 4, 4>>, <<4, 8, 2, 4, 8, 2, 4>> }

InputLevels == {0, 2, 4, 5, 6}

\* Degrees beyond MaxDeg: the smallest ones whose evaluation computes an
\* odd power (33), fills a whole tree (63) and computes T_5 (129).  They are
\* evaluated at x = 1: t = 1 for EvaluateCheby, t = 1/2 for
\* EvaluateChebySpecial with n = 2, where every T_k(t) stays small.
LargeDegrees == {33, 63, 129}

LargeChain == [i \in 1..(MaxLevel + 1) |-> 4]

Inputs ==
    { [coeffs |-> PatternPoly(pat, D), pt |-> pt, level |-> l, Qi |-> ch] :
        pat \in Patterns, D \in 0..MaxDeg, pt \in Points,
        l \in InputLevels, ch \in Chains }
    \cup
    { [coeffs |-> ScenarioPoly,
       pt |-> [x |-> Q(3, 5), a |-> QInt(-1), b |-> QInt(1)],
       level |-> l, Qi |-> ch] : l \in {6}, ch \in Chains }
    \cup
    { [coeffs |-> PatternPoly("ints", D),
       pt |-> [x |-> QInt(1), a |-> QInt(-1), b |-> QInt(1)],
       level |-> MaxLevel, Qi |-> LargeChain] : D \in LargeDegrees }

---------------------------------------------------------------------------
(* State.                                                                   *)

NoOps == [mulrelin |-> 0, rescale |-> 0, add |-> 0, addconst |-> 0, gauss |-> 0]

NoRet == [treeIndex |-> 0, ct |-> NoCt]

NoFn == [kind |-> "none", coeffs |-> <<>>, maxDeg |-> 0, split |-> 0,
         out |-> [err |-> "None", q |-> Poly(<<>>, 0), r |-> Poly(<<>>, 0)]]

EmptyMap == [k \in {} |-> NilCt]

NoDrv == [logDegree |-> 0, logSplit |-> 0, i |-> 0]

\* A frame of recurseCheby: its arguments, its position and its locals.
Frame(coeffs, maxDeg) ==
    [coeffs |-> coeffs, maxDeg |-> maxDeg, st |-> "enter", nextPower |-> 0,
     coeffsr |-> Poly(<<>>, 0), res |-> NoCt, treeIndex0 |-> 0]

Init ==
    \E in \in Inputs :
        /\ params = [Scale |-> QInt(4), Qi |-> in.Qi]
        /\ op = Ct(in.level, QInt(4), CReal(in.pt.x))
        /\ cheby = Cheby(in.coeffs, in.pt.a, in.pt.b)
        /\ nconst = QInt(2)
        /\ pc = "idle"
        /\ variant = "none"
        /\ C = EmptyMap
        /\ drv = NoDrv
        /\ pbStack = <<>>
        /\ rcStack = <<>>
        /\ ret = NoRet
        /\ result = NoCt
        /\ err = ""
        /\ ops = NoOps
        /\ computed = [k \in {} |-> 0]
        /\ consumed = [fast |-> -1, special |-> -1]
        /\ fn = NoFn

Top(stack) == stack[Len(stack)]
Get0(f, k) == IF k \in DOMAIN f THEN f[k] ELSE 0
Pop(stack) == SubSeq(stack, 1, Len(stack) - 1)
SetTop(stack, f) == [stack EXCEPT ![Len(stack)] = f]

\* A Go panic: the program is dead, nothing else changes.
Panic(e) ==
    /\ pc' = "panic"
    /\ err' = e
    /\ UNCHANGED <<params, op, cheby, nconst, variant, C, drv, pbStack,
                   rcStack, ret, result, ops, computed, consumed, fn>>

---------------------------------------------------------------------------
(* Entry points and the driver evalCheby.                                   *)

\* logDegree one short of bits.Len64(degree).
logDegreeOfShort(ch) == Sub64(Len64(degree(ch.coeffs)), 1)

\* Lines 62-63 of evalCheby.
logDegreeOf(ch) == Len64(degree(ch.coeffs))
\* logSplit from floor(log2(degree + 1)) instead of bits.Len64(degree).
logSplitOfFloor(ch) ==
    Sub64((Len64(degree(ch.coeffs) + 1) - 1) \div 2, 1)

\* logSplit without the decrement: logDegree >> 1.
logSplitOfNoDecrement(ch) == logDegreeOf(ch) \div 2

logSplitOf(ch) == Sub64(logDegreeOf(ch) \div 2, 1)

\* C := make(map); C[1] = normalized copy of op; then evalCheby starts.
Enter(v, n) ==
    LET c1 == normalize(op, cheby.a, cheby.b, n)
    IN  /\ pc = "idle"
        /\ consumed[v] = -1
        /\ IF c1.err # ""
           THEN /\ pc' = "panic"
                /\ err' = c1.err
                /\ variant' = v
                /\ UNCHANGED <<C, drv, ret, ops, computed>>
           ELSE /\ pc' = "baby"
                /\ err' = err
                /\ variant' = v
                /\ C' = (1 :> c1)
                /\ drv' = [logDegree |-> logDegreeOf(cheby),
                           logSplit |-> logSplitOf(cheby), i |-> 2]
                /\ ret' = NoRet
                /\ ops' = [NoOps EXCEPT !.rescale = 1, !.addconst = 1]
                /\ computed' = [k \in {} |-> 0]
        /\ UNCHANGED <<params, op, cheby, nconst, pbStack, rcStack, result,
                       consumed, fn>>

EvaluateCheby == Enter("fast", QOne)

EvaluateChebySpecial == Enter("special", nconst)

PBFrame(n) == [n |-> n, st |-> "enter"]

\* for i := uint64(2); i < (1 << logSplit); i++ { computePowerBasisCheby(i) }
BabyLoop ==
    /\ pc = "baby"
    /\ pbStack = <<>>
    /\ IF Lt64(drv.i, Shl64(1, drv.logSplit))
       THEN /\ pbStack' = <<PBFrame(drv.i)>>
            /\ drv' = [drv EXCEPT !.i = drv.i + 1]
            /\ pc' = pc
       ELSE /\ drv' = [drv EXCEPT !.i = drv.logSplit]
            /\ pc' = "giant"
            /\ pbStack' = pbStack
    /\ UNCHANGED <<params, op, cheby, nconst, variant, C, rcStack, ret,
                   result, err, ops, computed, consumed, fn>>

\* for i := logSplit; i < logDegree; i++ { computePowerBasisCheby(1 << i) }
\* and then the call of recurseCheby on cheby.Poly().
GiantLoop ==
    /\ pc = "giant"
    /\ pbStack = <<>>
    /\ IF Lt64(drv.i, drv.logDegree)
       THEN /\ pbStack' = <<PBFrame(Shl64(1, drv.i))>>
            /\ drv' = [drv EXCEPT !.i = drv.i + 1]
            /\ pc' = pc
            /\ rcStack' = rcStack
       ELSE /\ rcStack' = <<Frame(cheby.coeffs, cheby.maxDeg)>>
            /\ pc' = "recurse"
            /\ UNCHANGED <<drv, pbStack>>
    /\ UNCHANGED <<params, op, cheby, nconst, variant, C, ret, result, err,
                   ops, computed, consumed, fn>>

---------------------------------------------------------------------------
(* computePowerBasisCheby, one step per call, return or computation.        *)

\* Depth at which the Go runtime gives up on an unbounded recursion.
MaxStack == 12

InPowerBasis == pc \in {"baby", "giant", "ensure"} /\ pbStack # <<>>

\* The nil test failing to recognise the populated key 2.
needsComputingForgetsTwo(n, CC) == n \notin DOMAIN CC \/ n = 2

\* if C[n] == nil
needsComputing(n, CC) == n \notin DOMAIN CC

\* Entry of computePowerBasisCheby(n): return at once when C[n] is set,
\* otherwise recurse on a.
PBEnter ==
    /\ InPowerBasis
    /\ Top(pbStack).st = "enter"
    /\ LET n == Top(pbStack).n
       IN  IF ~needsComputing(n, C)
           THEN /\ pbStack' = Pop(pbStack)
                /\ UNCHANGED <<pc, err>>
           ELSE IF Len(pbStack) >= MaxStack
           THEN /\ pc' = "panic"
                /\ err' = "StackOverflow"
                /\ pbStack' = pbStack
           ELSE /\ pbStack' = Append(SetTop(pbStack, [n |-> n, st |-> "callB"]),
                                     PBFrame(pbA(n)))
                /\ UNCHANGED <<pc, err>>
    /\ UNCHANGED <<params, op, cheby, nconst, variant, C, drv, rcStack, ret,
                   result, ops, computed, consumed, fn>>

\* computePowerBasisCheby(b, ...)
PBCallB ==
    /\ InPowerBasis
    /\ Top(pbStack).st = "callB"
    /\ LET n == Top(pbStack).n
       IN  pbStack' = Append(SetTop(pbStack, [n |-> n, st |-> "callC"]),
                             PBFrame(pbB(n)))
    /\ UNCHANGED <<params, op, cheby, nconst, pc, variant, C, drv, rcStack,
                   ret, result, err, ops, computed, consumed, fn>>

\* The call on c without the test c != 0.
PBCallCAlways ==
    /\ InPowerBasis
    /\ Top(pbStack).st = "callC"
    /\ LET n == Top(pbStack).n
       IN  pbStack' = Append(SetTop(pbStack, [n |-> n, st |-> "compute"]),
                             PBFrame(pbC(n)))
    /\ UNCHANGED <<params, op, cheby, nconst, pc, variant, C, drv, rcStack,
                   ret, result, err, ops, computed, consumed, fn>>

\* if c != 0 { computePowerBasisCheby(c, ...) }
PBCallC ==
    /\ InPowerBasis
    /\ Top(pbStack).st = "callC"
    /\ LET n == Top(pbStack).n
           waiting == SetTop(pbStack, [n |-> n, st |-> "compute"])
       IN  pbStack' = IF pbC(n) # 0 THEN Append(waiting, PBFrame(pbC(n)))
                      ELSE waiting
    /\ UNCHANGED <<params, op, cheby, nconst, pc, variant, C, drv, rcStack,
                   ret, result, err, ops, computed, consumed, fn>>

\* Lines 108-119: the new entry is stored, or the failed operation panics.
PBCompute ==
    /\ InPowerBasis
    /\ Top(pbStack).st = "compute"
    /\ LET n == Top(pbStack).n
           v == powerBasisEntry(n, C)
       IN  IF v.err # ""
           THEN Panic(v.err)
           ELSE /\ C' = [k \in DOMAIN C \cup {n} |-> IF k = n THEN v ELSE C[k]]
                /\ computed' = [k \in DOMAIN computed \cup {n} |->
                                  IF k = n THEN Get0(computed, n) + 1
                                  ELSE computed[k]]
                /\ ops' = [ops EXCEPT !.mulrelin = @ + 1, !.rescale = @ + 1,
                                      !.add = @ + 1,
                                      !.addconst = @ + (IF pbC(n) = 0 THEN 1 ELSE 0)]
                /\ pbStack' = Pop(pbStack)
                /\ UNCHANGED <<params, op, cheby, nconst, pc, variant, drv,
                               rcStack, ret, result, err, consumed, fn>>

---------------------------------------------------------------------------
(* recurseCheby, one step per call, loop iteration, split, merge or return. *)

InRecursion == pc = "recurse" /\ rcStack # <<>>

\* if coeffs.degree() < (1 << L)
isLeaf(coeffs, L) == Lt64(degree(coeffs), Shl64(1, L))

\* The loop test against the whole degree: nextPower < coeffs.degree() + 1.
loopConditionWholeDegree(nextPower, coeffs) ==
    Lt64(nextPower, degree(coeffs) + 1)

\* for nextPower < (coeffs.degree()>>1)+1
loopCondition(nextPower, coeffs) == Lt64(nextPower, (degree(coeffs) \div 2) + 1)

\* Entry of recurseCheby: the test of line 175; when the polynomial is not a
\* leaf, nextPower starts at 1 << L.
RCEnter ==
    /\ InRecursion
    /\ Top(rcStack).st = "enter"
    /\ LET f == Top(rcStack)
       IN  rcStack' = SetTop(rcStack,
              IF isLeaf(f.coeffs, drv.logSplit)
              THEN [f EXCEPT !.st = "leaf"]
              ELSE [f EXCEPT !.st = "loopTest",
                             !.nextPower = Shl64(1, drv.logSplit)])
    /\ UNCHANGED <<params, op, cheby, nconst, pc, variant, C, drv, pbStack,
                   ret, result, err, ops, computed, consumed, fn>>

\* return coeffs.maxDeg, evaluatePolyFromChebyBasis(coeffs, C, evaluator)
RCLeaf ==
    /\ InRecursion
    /\ Top(rcStack).st = "leaf"
    /\ LET f == Top(rcStack)
           leaf == evaluatePolyFromChebyBasis(params.Scale, f.coeffs, C)
       IN  IF leaf.ct.err # ""
           THEN Panic(leaf.ct.err)
           ELSE /\ ret' = [treeIndex |-> f.maxDeg, ct |-> leaf.ct]
                /\ rcStack' = Pop(rcStack)
                /\ ops' = [ops EXCEPT !.rescale = @ + 1,
                                      !.add = @ + leaf.nAdd,
                                      !.addconst = @ + leaf.nAddConst,
                                      !.gauss = @ + leaf.nGauss]
                /\ UNCHANGED <<params, op, cheby, nconst, pc, variant, C,
                               drv, pbStack, result, err, computed,
                               consumed, fn>>

\* The condition of the nextPower loop.
RCLoopTest ==
    /\ InRecursion
    /\ Top(rcStack).st = "loopTest"
    /\ LET f == Top(rcStack)
       IN  rcStack' = SetTop(rcStack,
              [f EXCEPT !.st = IF loopCondition(f.nextPower, f.coeffs)
                               THEN "loopBody" ELSE "split"])
    /\ UNCHANGED <<params, op, cheby, nconst, pc, variant, C, drv, pbStack,
                   ret, result, err, ops, computed, consumed, fn>>

\* nextPower <<= 1
RCLoopBody ==
    /\ InRecursion
    /\ Top(rcStack).st = "loopBody"
    /\ LET f == Top(rcStack)
       IN  rcStack' = SetTop(rcStack,
              [f EXCEPT !.st = "loopTest",
                        !.nextPower = shiftNextPower(f.nextPower)])
    /\ UNCHANGED <<params, op, cheby, nconst, pc, variant, C, drv, pbStack,
                   ret, result, err, ops, computed, consumed, fn>>

\* coeffsq, coeffsr := splitCoeffsCheby(coeffs, nextPower), then the
\* recursive call on coeffsq.
RCSplit ==
    /\ InRecursion
    /\ Top(rcStack).st = "split"
    /\ LET f == Top(rcStack)
           sp == splitCoeffsCheby(f.coeffs, f.maxDeg, f.nextPower)
       IN  IF sp.err # ""
           THEN Panic(sp.err)
           ELSE /\ rcStack' = Append(
                      SetTop(rcStack, [f EXCEPT !.st = "gotQ", !.coeffsr = sp.r]),
                      Frame(sp.q.coeffs, sp.q.maxDeg))
                /\ UNCHANGED <<params, op, cheby, nconst, pc, variant, C, drv,
                               pbStack, ret, result, err, ops, computed,
                               consumed, fn>>

\* treeIndex0, res = <returned>; then the recursive call on coeffsr.
RCGotQ ==
    /\ InRecursion
    /\ Top(rcStack).st = "gotQ"
    /\ LET f == Top(rcStack)
       IN  rcStack' = Append(
              SetTop(rcStack, [f EXCEPT !.st = "gotR", !.res = ret.ct,
                                        !.treeIndex0 = ret.treeIndex]),
              Frame(f.coeffsr.coeffs, f.coeffsr.maxDeg))
    /\ UNCHANGED <<params, op, cheby, nconst, pc, variant, C, drv, pbStack,
                   ret, result, err, ops, computed, consumed, fn>>

\* treeIndex1, tmp = <returned>; lines 205-236: the merge and the return.
RCMerge ==
    /\ InRecursion
    /\ Top(rcStack).st = "gotR"
    /\ LET f == Top(rcStack)
           merged == mergeCheby(f.res, ret.ct, f.nextPower, C)
       IN  IF merged.err # ""
           THEN Panic(merged.err)
           ELSE /\ ret' = [treeIndex |-> Max(f.treeIndex0, ret.treeIndex),
                           ct |-> merged]
                /\ rcStack' = Pop(rcStack)
                /\ ops' = [ops EXCEPT !.mulrelin = @ + 1, !.rescale = @ + 1,
                                      !.add = @ + 1]
                /\ UNCHANGED <<params, op, cheby, nconst, pc, variant, C, drv,
                               pbStack, result, err, computed, consumed, fn>>

\* recurseCheby has returned to evalCheby, which returns res to the caller.
Return ==
    /\ pc = "recurse"
    /\ rcStack = <<>>
    /\ result' = ret.ct
    /\ pc' = "idle"
    /\ consumed' = [consumed EXCEPT ![variant] = op.level - ret.ct.level]
    /\ UNCHANGED <<params, op, cheby, nconst, variant, C, drv, pbStack,
                   rcStack, ret, err, ops, computed, fn>>

Next ==
    \/ EvaluateCheby
    \/ EvaluateChebySpecial
    \/ BabyLoop
    \/ GiantLoop
    \/ PBEnter
    \/ PBCallB
    \/ PBCallC
    \/ PBCompute
    \/ RCEnter
    \/ RCLeaf
    \/ RCLoopTest
    \/ RCLoopBody
    \/ RCSplit
    \/ RCGotQ
    \/ RCMerge
    \/ Return

Spec == Init /\ [][Next]_vars

\* A running evaluation keeps executing its control flow: the two loops of
\* evalCheby, the entry test of recurseCheby and its nextPower loop are
\* never suspended.
FairSpec ==
    /\ Spec
    /\ WF_vars(BabyLoop)
    /\ WF_vars(GiantLoop)
    /\ WF_vars(RCEnter)
    /\ WF_vars(RCLoopTest)
    /\ WF_vars(RCLoopBody)

---------------------------------------------------------------------------
(* splitCoeffsCheby applied on its own to bounded inputs.                   *)

SplitInputs ==
    { [coeffs |-> PatternPoly(pat, D), maxDeg |-> D + extra, split |-> sp] :
        pat \in Patterns, D \in 0..MaxSplitDeg, extra \in {0, 1},
        sp \in 1..(MaxSplitDeg + 1) }

SplitInit ==
    \E in \in SplitInputs :
        /\ fn = [NoFn EXCEPT !.kind = "input", !.coeffs = in.coeffs,
                             !.maxDeg = in.maxDeg, !.split = in.split]
        /\ params = [Scale |-> QInt(4), Qi |-> <<4>>]
        /\ op = NoCt
        /\ cheby = Cheby(in.coeffs, QInt(-1), QInt(1))
        /\ nconst = QInt(2)
        /\ pc = "split"
        /\ variant = "none"
        /\ C = EmptyMap
        /\ drv = NoDrv
        /\ pbStack = <<>>
        /\ rcStack = <<>>
        /\ ret = NoRet
        /\ result = NoCt
        /\ err = ""
        /\ ops = NoOps
        /\ computed = [k \in {} |-> 0]
        /\ consumed = [fast |-> -1, special |-> -1]

\* coeffsq, coeffsr := splitCoeffsCheby(coeffs, split)
ApplySplit ==
    /\ pc = "split"
    /\ fn.kind = "input"
    /\ fn' = [fn EXCEPT !.kind = "split",
                        !.out = splitCoeffsCheby(fn.coeffs, fn.maxDeg, fn.split)]
    /\ UNCHANGED <<params, op, cheby, nconst, pc, variant, C, drv, pbStack,
                   rcStack, ret, result, err, ops, computed, consumed>>

SplitNext == ApplySplit

SplitSpec == SplitInit /\ [][SplitNext]_vars

---------------------------------------------------------------------------
(* Reference definitions used by the properties.                            *)

\* T_0(t), ..., T_n(t) by the three-term recurrence
\* T_{k+1} = 2 t T_k - T_{k-1}.
RECURSIVE ChebSeq(_, _, _)
ChebSeq(n, t, seq) ==
    IF Len(seq) > n THEN seq
    ELSE LET k == Len(seq)
             nxt == CSub(CScale(CMul(t, seq[k]), QInt(2)), seq[k - 1])
         IN  ChebSeq(n, t, Append(seq, nxt))

ChebT(n, t) == ChebSeq(n, t, <<COne, t>>)[n + 1]

\* sum_k coeffs[k] * T_k(t): sums[k] is the sum of the first k terms.
RECURSIVE ChebSum(_, _, _)
ChebSum(coeffs, ts, sums) ==
    IF Len(sums) >= Len(coeffs) THEN sums
    ELSE LET k == Len(sums) + 1
             prev == IF k = 1 THEN CZero ELSE sums[k - 1]
         IN  ChebSum(coeffs, ts, Append(sums, CAdd(prev, CMul(coeffs[k], ts[k]))))

ChebEval(coeffs, t) ==
    IF coeffs = <<>> THEN CZero
    ELSE ChebSum(coeffs, ChebSeq(Len(coeffs), t, <<COne, t>>), <<>>)[Len(coeffs)]

\* t = (2x - a - b)/(b - a), the point the polynomial is evaluated at.
InputT ==
    CReal(QDiv(QSub(QSub(QMul(QInt(2), op.val.re), cheby.a), cheby.b),
               QSub(cheby.b, cheby.a)))

\* ceil(log2(D + 1))
CeilLog2(m) == Len64(m - 1)

TopDegree == degree(cheby.coeffs)

Returned(v) == pc = "idle" /\ variant = v /\ consumed[v] # -1

Running == pc \notin {"idle", "panic"}

\* The value the scenario 0.5 + 0.5*T_1 + 0.25*T_3 at x = 0.6 must give.
ScenarioValue == CReal(Q(283, 500))

---------------------------------------------------------------------------
(* Properties.                                                              *)

\* C1: EvaluateCheby returns a ciphertext whose value is
\* sum_k coeff[k] * T_k(t), t = (2x - a - b)/(b - a), for every polynomial
\* and every input; the only way not to return is the exhaustion of the
\* levels.  The scenario polynomial at x = 0.6 returns 0.566.
C1_EvaluateChebyValue ==
    /\ (variant = "fast" /\ pc = "panic") => err = "LevelExhausted"
    /\ Returned("fast") => result.val = ChebEval(cheby.coeffs, InputT)
    /\ (Returned("fast") /\ cheby.coeffs = ScenarioPoly) => result.val = ScenarioValue

\* C2: an evaluation of a polynomial of degree 0 that has started leads to
\* the return of a ciphertext that decodes to coeff[0], with no
\* multiply-relinearize performed (or to the exhaustion of the levels when
\* the input has none left for the normalization).
C2_DegreeZeroReturnsConstant ==
    (Running /\ TopDegree = 0)
        ~> \/ /\ pc = "idle"
              /\ result.val = cheby.coeffs[1]
              /\ ops.mulrelin = 0
           \/ pc = "panic" /\ err = "LevelExhausted"

\* C3: a started evaluation eventually finishes, whatever the degree, the
\* degrees 0 and 1 included: it returns or it fails fatally.
C3_Termination == (Running /\ TopDegree <= 1) ~> (pc \in {"idle", "panic"})

\* Coefficients, in the Chebyshev basis, of q * T_s + r, by
\* T_k * T_s = (T_{k+s} + T_{|k-s|}) / 2.
Recombine(q, r, s) ==
    [i \in 1..(Len(q) + s) |->
        LET m == i - 1
            half == Q(1, 2)
            up == IF m >= s THEN Coef(q, m - s) ELSE CZero
            down == Coef(q, m + s)
            refl == IF m > 0 /\ s >= m THEN Coef(q, s - m) ELSE CZero
        IN  CAdd(Coef(r, m), CScale(CAdd(CAdd(up, down), refl), half))]

IsPow2(n) == \E k \in 0..Shift64 : n = Pow2(k)

SplitDone == pc = "split" /\ fn.kind = "split"

\* q * T_split + r = p coefficient by coefficient, and the remainder has
\* `split` coefficients, so that its degree is below the threshold.
SplitRoundTrip ==
    /\ fn.out.err = ""
    /\ Recombine(fn.out.q.coeffs, fn.out.r.coeffs, fn.split) = fn.coeffs
    /\ ChebEval(fn.coeffs, CReal(Q(1, 2)))
         = CAdd(CMul(ChebEval(fn.out.q.coeffs, CReal(Q(1, 2))),
                     ChebT(fn.split, CReal(Q(1, 2)))),
                ChebEval(fn.out.r.coeffs, CReal(Q(1, 2))))
    /\ Len(fn.out.r.coeffs) = fn.split

\* C4 as stated: for every threshold that is a power of two with
\* threshold <= degree + 1, the split returns a quotient and a remainder
\* with q * T_threshold + r = p and degree(r) < threshold.
C4_SplitAsStated ==
    (SplitDone /\ IsPow2(fn.split) /\ fn.split <= degree(fn.coeffs) + 1)
        => SplitRoundTrip

\* C4, amended: the same holds for every threshold with
\* degree / 2 <= threshold <= degree (a power of two or not).
C4_SplitRoundTrip ==
    (SplitDone /\ fn.split <= degree(fn.coeffs)
               /\ degree(fn.coeffs) <= 2 * fn.split)
        => SplitRoundTrip

\* A split of a polynomial of degree 7 at 4, whose three upper coefficients
\* are folded back into the remainder.
C4_Witness ==
    /\ SplitDone
    /\ fn.split = 4
    /\ degree(fn.coeffs) = 7
    /\ fn.out.err = ""
    /\ fn.out.r.coeffs # SubSeq(fn.coeffs, 1, 4)

\* C5: a returned evaluation of a polynomial of degree D has consumed
\* ceil(log2(D + 1)) + 1 levels when started by EvaluateCheby and
\* ceil(log2(D + 1)) + 2 levels when started by EvaluateChebySpecial.
C5_LevelsConsumed ==
    /\ Returned("fast") => consumed.fast = CeilLog2(TopDegree + 1) + 1
    /\ Returned("special") => consumed.special = CeilLog2(TopDegree + 1) + 2

\* C6: on the same polynomial and input, EvaluateChebySpecial consumes
\* exactly one level fewer than EvaluateCheby.
C6_SpecialOneLevelFewer ==
    (consumed.fast # -1 /\ consumed.special # -1)
        => consumed.special = consumed.fast - 1

\* C7: within an evaluation every key is computed at most once, a call of
\* computePowerBasisCheby on a populated key returns at once without any
\* operation, and no step changes or removes a populated entry.
C7_Memoization ==
    /\ [](\A n \in DOMAIN computed : computed[n] <= 1)
    /\ [][(InPowerBasis /\ Top(pbStack).st = "enter"
                        /\ Top(pbStack).n \in DOMAIN C)
            => (C' = C /\ ops' = ops /\ computed' = computed
                       /\ pbStack' = Pop(pbStack))]_vars
    /\ [][(pc # "idle")
            => \A n \in DOMAIN C : n \in DOMAIN C' /\ C'[n] = C[n]]_vars

\* A second call of computePowerBasisCheby(2), made while 4 is computed.
C7_Witness ==
    /\ InPowerBasis
    /\ Len(pbStack) >= 2
    /\ Top(pbStack) = PBFrame(2)
    /\ 2 \in DOMAIN C
    /\ computed[2] = 1

MaxKey(CC) == CHOOSE m \in DOMAIN CC : \A n \in DOMAIN CC : n <= m

\* C8: with cache[1] holding t, every populated entry cache[n] holds T_n(t).
C8_CacheHoldsChebyshev ==
    C # EmptyMap =>
        LET t == C[1].val
            ts == ChebSeq(MaxKey(C), t, <<COne, t>>)
        IN  \A n \in DOMAIN C : C[n].err = "" /\ C[n].val = ts[n + 1]

\* The cache holds T_5 and T_7 (odd keys, c = 1) and T_128, at t = 1/2.
C8_Witness ==
    /\ {3, 5, 7, 128} \subseteq DOMAIN C
    /\ C[1].val = CReal(Q(1, 2))
    /\ C[5].val = CReal(Q(1, 2))

\* Both parts of c are at most the tolerance in absolute value.
WithinTol(c) == ~QLt(Tol, QAbs(c.re)) /\ ~QLt(Tol, QAbs(c.im))

\* The coefficients with every one that is within the tolerance set to 0.
ZeroSmall(coeffs) ==
    [k \in DOMAIN coeffs |-> IF WithinTol(coeffs[k]) THEN CZero ELSE coeffs[k]]

\* Number of coefficients of index >= from that exceed the tolerance.
CountLarge(coeffs, from) ==
    Cardinality({k \in DOMAIN coeffs : k >= from /\ ~WithinTol(coeffs[k])})

AtLeaf == InRecursion /\ Top(rcStack).st = "leaf"

\* C9: the leaf evaluator gives, for coefficients within the tolerance,
\* exactly what it gives with these set to 0: the same ciphertext after the
\* same operations, one constant addition if coeff[0] exceeds the tolerance
\* and one scalar multiplication and one addition for each other
\* coefficient that does.
C9_ToleranceAsZero ==
    AtLeaf =>
        LET p == Top(rcStack).coeffs
            got == evaluatePolyFromChebyBasis(params.Scale, p, C)
            ref == evaluatePolyFromChebyBasis(params.Scale, ZeroSmall(p), C)
        IN  /\ got = ref
            /\ got.ct.err = "" =>
                  /\ got.nAddConst = CountLarge(p, 1) - CountLarge(p, 2)
                  /\ got.nGauss = CountLarge(p, 2)
                  /\ got.nAdd = CountLarge(p, 2)

\* A leaf that is evaluated with a nonzero coefficient within the tolerance,
\* one of them exactly at it.
C9_Witness ==
    /\ AtLeaf
    /\ LET p == Top(rcStack).coeffs
       IN  /\ \E k \in DOMAIN p : p[k] # CZero /\ WithinTol(p[k])
           /\ \E k \in DOMAIN p : QAbs(p[k].re) = Tol
           /\ evaluatePolyFromChebyBasis(params.Scale, p, C).ct.err = ""

\* The step about to be taken multiplies and rescales, in
\* computePowerBasisCheby or in the merge of recurseCheby, a product that
\* is at level 0.
RescaleAtLevelZero ==
    \/ /\ InPowerBasis
       /\ Top(pbStack).st = "compute"
       /\ LET n == Top(pbStack).n
          IN  Min(Get(C, pbA(n)).level, Get(C, pbB(n)).level) = 0
    \/ /\ InRecursion
       /\ Top(rcStack).st = "gotR"
       /\ LET f == Top(rcStack)
          IN  /\ Get(C, f.nextPower).err = ""
              /\ Min(f.res.level, Get(C, f.nextPower).level) = 0

AllLevels ==
    {C[n].level : n \in DOMAIN C} \cup {ret.ct.level, result.level}
        \cup {rcStack[i].res.level : i \in DOMAIN rcStack}

ThresholdIsPow2 == \E k \in 0..MaxSplitDeg : fn.split = Pow2(k)

C11_InvalidSplitReported ==
    (SplitDone /\ (~ThresholdIsPow2 \/ fn.split > degree(fn.coeffs)))
        => fn.out.err # ""

\* The leaf evaluator applied to the polynomial at the top of the recursion.
LeafResult == evaluatePolyFromChebyBasis(params.Scale, Top(rcStack).coeffs, C)

AllWithinTol(coeffs) == \A k \in DOMAIN coeffs : WithinTol(coeffs[k])

\* C12: a leaf all of whose coefficients are within the tolerance, of any
\* degree, 0 included, evaluates to a zero-valued ciphertext with the scale
\* target_scale, one level below cache[1] (degree 0) or cache[degree]; it
\* does not fail while that entry has a level left.
C12_DegenerateLeafIsZero ==
    (AtLeaf /\ AllWithinTol(Top(rcStack).coeffs) /\ 1 \in DOMAIN C)
        => LET p == Top(rcStack).coeffs
               from == IF degree(p) = 0 THEN C[1] ELSE Get(C, degree(p))
           IN  (from.err = "" /\ from.level >= 1)
                 => /\ LeafResult.ct.err = ""
                    /\ LeafResult.ct.val = CZero
                    /\ LeafResult.ct.scale = params.Scale
                    /\ LeafResult.ct.level = from.level - 1

---------------------------------------------------------------------------
(* optimalL: the split exponent chosen from M = ceil(log2(degree + 1)).    *)
(* Its operands reach 2^64, so unsigned integers are little-endian         *)
(* sequences of 16-bit limbs: four limbs are a uint64, and arithmetic on   *)
(* them wraps because the carry out of the last limb is dropped.           *)

LimbBits == Shift64 \div 4

LimbBase == Pow2(LimbBits)

\* Limbs of a uint64.
Limbs64 == Shift64 \div LimbBits

\* Limbs of the integers in which the cost is computed without wrapping.
LimbsWide == 3 * Limbs64

\* Largest argument of optimalL that is explored.
MaxM == 132

BigSmall(n, W) == [i \in 1..W |-> IF i = 1 THEN n ELSE 0]

\* 1 << s in W limbs: 0 once the shift count reaches the width, which
\* includes a count that wrapped around below zero.
BigPow2(s, W) ==
    [i \in 1..W |->
        IF s >= 0 /\ s < LimbBits * W /\ (s \div LimbBits) + 1 = i
        THEN Pow2(s % LimbBits) ELSE 0]

RECURSIVE BigAddFrom(_, _, _, _, _)
BigAddFrom(x, y, i, carry, acc) ==
    IF i > Len(x) THEN acc
    ELSE LET s == x[i] + y[i] + carry
         IN  BigAddFrom(x, y, i + 1, s \div LimbBase, Append(acc, s % LimbBase))

BigAdd(x, y) == BigAddFrom(x, y, 1, 0, <<>>)

RECURSIVE BigSubFrom(_, _, _, _, _)
BigSubFrom(x, y, i, borrow, acc) ==
    IF i > Len(x) THEN acc
    ELSE LET d == x[i] - y[i] - borrow
         IN  IF d < 0
             THEN BigSubFrom(x, y, i + 1, 1, Append(acc, d + LimbBase))
             ELSE BigSubFrom(x, y, i + 1, 0, Append(acc, d))

BigSub(x, y) == BigSubFrom(x, y, 1, 0, <<>>)

BigLt(x, y) ==
    \E i \in 1..Len(x) :
        /\ x[i] < y[i]
        /\ \A j \in (i + 1)..Len(x) : x[j] = y[j]

\* (1 << p) + (1 << q) + M - L - k, evaluated left to right in W limbs.
costExpr(p, q, M, L, k, W) ==
    BigSub(BigSub(BigAdd(BigAdd(BigPow2(p, W), BigPow2(q, W)),
                         BigSmall(M, W)),
                  BigSmall(L, W)),
           BigSmall(k, W))

optimalLReversed(M) ==
    LET L == M \div 2
        a == costExpr(L, M - L, M, L, 3, Limbs64)
        b == costExpr(L + 1, M - L - 1, M, L, 4, Limbs64)
    IN  IF BigLt(a, b) THEN L + 1 ELSE L

optimalL(M) ==
    LET L == M \div 2
        a == costExpr(L, M - L, M, L, 3, Limbs64)
        b == costExpr(L + 1, M - L - 1, M, L, 4, Limbs64)
    IN  IF BigLt(b, a) THEN L + 1 ELSE L

OptInit ==
    \E M \in 0..MaxM :
        /\ fn = [kind |-> "input", M |-> M, out |-> 0]
        /\ params = [Scale |-> QInt(4), Qi |-> <<4>>]
        /\ op = NoCt
        /\ cheby = Cheby(<<>>, QInt(-1), QInt(1))
        /\ nconst = QInt(2)
        /\ pc = "optimalL"
        /\ variant = "none"
        /\ C = EmptyMap
        /\ drv = NoDrv
        /\ pbStack = <<>>
        /\ rcStack = <<>>
        /\ ret = NoRet
        /\ result = NoCt
        /\ err = ""
        /\ ops = NoOps
        /\ computed = [k \in {} |-> 0]
        /\ consumed = [fast |-> -1, special |-> -1]

ApplyOptimalL ==
    /\ pc = "optimalL"
    /\ fn.kind = "input"
    /\ fn' = [fn EXCEPT !.kind = "optimalL", !.out = optimalL(fn.M)]
    /\ UNCHANGED <<params, op, cheby, nconst, pc, variant, C, drv, pbStack,
                   rcStack, ret, result, err, ops, computed, consumed>>

OptNext == ApplyOptimalL

OptSpec == OptInit /\ [][OptNext]_vars

\* cost(l) = 2^l + 2^(M-l) + M - l - 3 without wrapping.
cost(l, M) == costExpr(l, M - l, M, l, 3, LimbsWide)

Minimises(L, M) ==
    /\ L \in 0..M
    /\ \A l \in 0..M : ~BigLt(cost(l, M), cost(L, M))

\* floor(M/2) + 1 when cost(floor(M/2)) > cost(floor(M/2) + 1), else
\* floor(M/2).
ByComparison(L, M) ==
    L = IF BigLt(cost((M \div 2) + 1, M), cost(M \div 2, M))
        THEN (M \div 2) + 1 ELSE M \div 2

OptDone == pc = "optimalL" /\ fn.kind = "optimalL"

\* The arguments up to which the wrapped 64-bit sums still order the two
\* costs correctly.
ExactUpTo == 2 * Shift64 + 1

\* C13 as stated: for every M >= 1 the result minimises cost over 0..M and
\* is floor(M/2) + 1 exactly when cost(floor(M/2)) > cost(floor(M/2) + 1).
C13_OptimalLForEveryM ==
    (OptDone /\ fn.M >= 1)
        => Minimises(fn.out, fn.M) /\ ByComparison(fn.out, fn.M)

\* C13, amended: for every M from 1 to 129 the result minimises cost over
\* 0..M and is floor(M/2) + 1 exactly when
\* cost(floor(M/2)) > cost(floor(M/2) + 1).
C13_OptimalLWhileExact ==
    (OptDone /\ fn.M >= 1 /\ fn.M <= ExactUpTo)
        => Minimises(fn.out, fn.M) /\ ByComparison(fn.out, fn.M)

\* An odd argument whose sums pass 2^64 and still gives floor(M/2) + 1.
C13_Witness ==
    /\ OptDone
    /\ fn.M = ExactUpTo
    /\ fn.out = (fn.M \div 2) + 1
    /\ Minimises(fn.out, fn.M)

---------------------------------------------------------------------------
(* The integer encoder of the plaintext ring R_t = Z_t[X]/(X^N + 1).       *)
(* Polynomials and slot vectors are sequences of N residues; position k of *)
(* the source is index k + 1 here.                                         *)

\* params.LogN() and the ring degree N, m = 2N.
LogN == 2

RingN == Pow2(LogN)

\* params.t, a prime with 2N dividing t - 1.
PlainT == 17

\* A primitive 2N-th root of unity modulo t.
Psi == 2

GaloisGen == 5

RECURSIVE PowMod(_, _, _)
PowMod(b, e, m) == IF e = 0 THEN 1 % m ELSE (b * PowMod(b, e - 1, m)) % m

InvMod(a, m) == CHOOSE x \in 1..(m - 1) : (a * x) % m = 1

RECURSIVE SumTo(_, _)
SumTo(f, n) == IF n < 0 THEN 0 ELSE f[n] + SumTo(f, n - 1)

\* ringT.NTT: the values of the polynomial at the odd powers of Psi.
NTT(p) ==
    [j \in 1..RingN |->
        SumTo([i \in 0..(RingN - 1) |->
                  p[i + 1] * PowMod(Psi, ((2 * (j - 1) + 1) * i) % (2 * RingN),
                                    PlainT)],
              RingN - 1) % PlainT]

\* ringT.InvNTT / InvNTTLazy: the polynomial with the given values.
InvNTT(v) ==
    [i \in 1..RingN |->
        (InvMod(RingN, PlainT)
           * SumTo([j \in 0..(RingN - 1) |->
                       v[j + 1] * PowMod(Psi,
                                         (2 * RingN
                                            - (((2 * j + 1) * (i - 1))
                                                 % (2 * RingN)))
                                           % (2 * RingN),
                                         PlainT)],
                   RingN - 1)) % PlainT]

RECURSIVE BitReverse64(_, _)
BitReverse64(index, bitLen) ==
    IF bitLen = 0 THEN 0
    ELSE (index % 2) * Pow2(bitLen - 1) + BitReverse64(index \div 2, bitLen - 1)

\* pos after i iterations of pos *= GaloisGen; pos &= (m - 1), from pos = 1.
galoisPos(i) == PowMod(GaloisGen, i, 2 * RingN)

\* newEncoder: indexMatrix[i] and indexMatrix[i | rowSize].
indexMatrix ==
    LET rowSize == RingN \div 2
    IN  [k \in 0..(RingN - 1) |->
            IF k < rowSize
            THEN BitReverse64((galoisPos(k) - 1) \div 2, LogN)
            ELSE BitReverse64((2 * RingN - galoisPos(k - rowSize) - 1) \div 2,
                              LogN)]

\* The slot vector written by the two loops of EncodeIntRingT.
intSlots(coeffs) ==
    [pos \in 1..RingN |->
        LET i == CHOOSE k \in 0..(RingN - 1) : indexMatrix[k] = pos - 1
        IN  IF i < Len(coeffs)
            THEN IF coeffs[i + 1] < 0 THEN PlainT + coeffs[i + 1]
                 ELSE coeffs[i + 1]
            ELSE 0]

EncodeIntRingT(coeffs) ==
    IF Len(coeffs) > RingN
    THEN [err |-> "invalid input to encode", value |-> <<>>]
    ELSE [err |-> "", value |-> InvNTT(intSlots(coeffs))]

\* DecodeInt on a PlaintextRingT: copy, NTT, then centring around t.
DecodeInt(pt) ==
    LET tmpPoly == NTT(pt.value)
        modulus == PlainT
        modulusHalf == modulus \div 2
    IN  [i \in 1..RingN |->
            LET value == tmpPoly[indexMatrix[i - 1] + 1]
            IN  IF value >= modulusHalf THEN value - modulus ELSE value]

\* Coefficients around 0 and around half of the plaintext modulus.
IntCoeffs ==
    LET h == PlainT \div 2
    IN  {-(h + 1), -h, -1, 0, 1, h - 1, h, h + 1}

RECURSIVE SeqsUpTo(_, _)
SeqsUpTo(S, n) ==
    IF n = 0 THEN {<<>>}
    ELSE LET prev == SeqsUpTo(S, n - 1)
         IN  prev \cup {Append(q, x) : q \in {r \in prev : Len(r) = n - 1},
                                       x \in S}

IntInputs ==
    SeqsUpTo(IntCoeffs, RingN) \cup {[i \in 1..(RingN + 1) |-> 1]}

IntInit ==
    \E coeffs \in IntInputs :
        /\ fn = [kind |-> "input", coeffs |-> coeffs,
                 pt |-> [err |-> "", value |-> [i \in 1..RingN |-> 0]],
                 out |-> <<>>]
        /\ params = [Scale |-> QInt(4), Qi |-> <<4>>]
        /\ op = NoCt
        /\ cheby = Cheby(<<>>, QInt(-1), QInt(1))
        /\ nconst = QInt(2)
        /\ pc = "int"
        /\ variant = "none"
        /\ C = EmptyMap
        /\ drv = NoDrv
        /\ pbStack = <<>>
        /\ rcStack = <<>>
        /\ ret = NoRet
        /\ result = NoCt
        /\ err = ""
        /\ ops = NoOps
        /\ computed = [k \in {} |-> 0]
        /\ consumed = [fast |-> -1, special |-> -1]

ApplyEncodeIntRingT ==
    /\ pc = "int"
    /\ fn.kind = "input"
    /\ LET pt == EncodeIntRingT(fn.coeffs)
       IN  IF pt.err # ""
           THEN fn' = [fn EXCEPT !.kind = "panic", !.pt = pt]
           ELSE fn' = [fn EXCEPT !.kind = "encoded", !.pt = pt]
    /\ UNCHANGED <<params, op, cheby, nconst, pc, variant, C, drv, pbStack,
                   rcStack, ret, result, err, ops, computed, consumed>>

ApplyDecodeInt ==
    /\ pc = "int"
    /\ fn.kind = "encoded"
    /\ fn' = [fn EXCEPT !.kind = "decoded", !.out = DecodeInt(fn.pt)]
    /\ UNCHANGED <<params, op, cheby, nconst, pc, variant, C, drv, pbStack,
                   rcStack, ret, result, err, ops, computed, consumed>>

IntNext == ApplyEncodeIntRingT \/ ApplyDecodeInt

IntSpec == IntInit /\ [][IntNext]_vars

IntDone == pc = "int" /\ fn.kind = "decoded"

\* |c| <= t/2 for every coefficient of the input.
WithinHalf(coeffs) == \A i \in DOMAIN coeffs : 2 * Abs(coeffs[i]) <= PlainT

\* C14: EncodeIntRingT followed by DecodeInt returns every coefficient c
\* of the input unchanged, sign included, whenever |c| <= t/2.
C14_IntRoundTrip ==
    (IntDone /\ WithinHalf(fn.coeffs))
        => \A i \in DOMAIN fn.coeffs : fn.out[i] = fn.coeffs[i]

---------------------------------------------------------------------------
(* The complex encoders: the level and the domain of the plaintext they    *)
(* return.  A plaintext is its level, its scale, its domain flag and the   *)
(* number of moduli its coefficients were scaled up over.                  *)

\* Largest params.MaxLevel() that is explored.
MaxEncLevel == 3

Encoders == {"encoderComplex128", "encoderBigComplex"}

\* NewPlaintextCKKS(params, level, scale); isNTT is the flag the
\* constructor leaves.
NewPlaintextCKKS(level, scale, isNTT) ==
    [err |-> "", level |-> level, scale |-> scale, isNTT |-> isNTT, rows |-> 0]

\* The tests of EmbedComplex and of encoderBigComplex.EncodeComplex on the
\* number of values and of slots.
embedPanics(enc, nvalues, logSlots) ==
    \/ nvalues > RingN \div 2
    \/ nvalues > Pow2(logSlots)
    \/ logSlots > LogN - 1
    \/ enc = "encoderBigComplex" /\ nvalues # Pow2(logSlots)

EncodeComplex(plaintext, enc, nvalues, logSlots) ==
    IF embedPanics(enc, nvalues, logSlots)
    THEN [plaintext EXCEPT !.err = "cannot Encode"]
    ELSE IF enc = "encoderComplex128"
    THEN [plaintext EXCEPT !.rows = plaintext.level + 1, !.isNTT = FALSE]
    ELSE [plaintext EXCEPT !.rows = plaintext.level + 1]

EncodeComplexNTT(plaintext, enc, nvalues, logSlots) ==
    LET encoded == EncodeComplex(plaintext, enc, nvalues, logSlots)
    IN  IF encoded.err # "" THEN encoded
        ELSE [encoded EXCEPT !.isNTT = TRUE]

EncodeComplexAtLvlNew(in) ==
    EncodeComplex(NewPlaintextCKKS(in.level, params.Scale, in.fresh),
                  in.enc, in.nvalues, in.logSlots)

EncodeComplexNTTAtLvlNew(in) ==
    EncodeComplexNTT(NewPlaintextCKKS(in.maxLevel, params.Scale, in.fresh),
                     in.enc, in.nvalues, in.logSlots)

EncInputs ==
    [enc : Encoders, maxLevel : 0..MaxEncLevel, level : 0..MaxEncLevel,
     nvalues : 0..((RingN \div 2) + 1), logSlots : 0..LogN, fresh : BOOLEAN]

EncInit ==
    \E in \in EncInputs :
        /\ in.level <= in.maxLevel
        /\ fn = [kind |-> "input", in |-> in,
                 out |-> NewPlaintextCKKS(0, QZero, FALSE)]
        /\ params = [Scale |-> QInt(4), Qi |-> [i \in 1..(in.maxLevel + 1) |-> 4]]
        /\ op = NoCt
        /\ cheby = Cheby(<<>>, QInt(-1), QInt(1))
        /\ nconst = QInt(2)
        /\ pc = "encode"
        /\ variant = "none"
        /\ C = EmptyMap
        /\ drv = NoDrv
        /\ pbStack = <<>>
        /\ rcStack = <<>>
        /\ ret = NoRet
        /\ result = NoCt
        /\ err = ""
        /\ ops = NoOps
        /\ computed = [k \in {} |-> 0]
        /\ consumed = [fast |-> -1, special |-> -1]

ApplyEncodeComplexAtLvlNew ==
    /\ pc = "encode"
    /\ fn.kind = "input"
    /\ fn' = [fn EXCEPT !.kind = "EncodeComplexAtLvlNew",
                        !.out = EncodeComplexAtLvlNew(fn.in)]
    /\ UNCHANGED <<params, op, cheby, nconst, pc, variant, C, drv, pbStack,
                   rcStack, ret, result, err, ops, computed, consumed>>

ApplyEncodeComplexNTTAtLvlNew ==
    /\ pc = "encode"
    /\ fn.kind = "input"
    /\ fn' = [fn EXCEPT !.kind = "EncodeComplexNTTAtLvlNew",
                        !.out = EncodeComplexNTTAtLvlNew(fn.in)]
    /\ UNCHANGED <<params, op, cheby, nconst, pc, variant, C, drv, pbStack,
                   rcStack, ret, result, err, ops, computed, consumed>>

EncNext == ApplyEncodeComplexAtLvlNew \/ ApplyEncodeComplexNTTAtLvlNew

EncSpec == EncInit /\ [][EncNext]_vars

\* C15: EncodeComplexNTTAtLvlNew(level, values, logSlots), for a level in
\* 0..MaxLevel and arguments it accepts, returns a plaintext in the NTT
\* domain whose level is the requested level; so does it for both encoders.
C15_EncodeNTTAtRequestedLevel ==
    (pc = "encode" /\ fn.kind = "EncodeComplexNTTAtLvlNew" /\ fn.out.err = "")
        => fn.out.level = fn.in.level /\ fn.out.isNTT

---------------------------------------------------------------------------
(* Properties of the merge and of the power basis.                         *)

\* recurseCheby holds res and tmp and is about to multiply and add.
AtMerge == InRecursion /\ Top(rcStack).st = "gotR"

\* res after evaluator.MulRelin(res, C[nextPower], evakey, res).
MergeProduct == MulRelin(Top(rcStack).res, Get(C, Top(rcStack).nextPower))

\* C16: at every merge the addition combines operands of equal level: when
\* res is above tmp after the multiplication, one rescale of res brings it
\* to the level of tmp; otherwise the two levels are already equal; res is
\* never below tmp.
C16_MergeAddsEqualLevels ==
    (AtMerge /\ MergeProduct.err = "" /\ ret.ct.err = "")
        => IF MergeProduct.level > ret.ct.level
           THEN MergeProduct.level - 1 = ret.ct.level
           ELSE MergeProduct.level = ret.ct.level

\* A merge that takes the first branch, and one that takes the second.
C16_Witness ==
    /\ AtMerge
    /\ MergeProduct.err = ""
    /\ ret.ct.err = ""
    /\ MergeProduct.level > ret.ct.level
    /\ Rescale(MergeProduct).level = ret.ct.level

\* The cache entry the leaf evaluator is said to take its level and its
\* current modulus from.
LeafSource ==
    IF degree(Top(rcStack).coeffs) = 0 THEN Get(C, 1)
    ELSE Get(C, degree(Top(rcStack).coeffs))

\* C17: the leaf evaluator takes its output level and its current modulus
\* from cache[1] when the degree is 0, without reading cache[0], and from
\* cache[degree] otherwise: with a level left there, it returns a ciphertext
\* one level below that entry.
C17_LeafLevelFromCache ==
    (AtLeaf /\ LeafSource.err = "" /\ LeafSource.level >= 1)
        => /\ LeafResult.ct.err = ""
           /\ LeafResult.ct.level = LeafSource.level - 1

---------------------------------------------------------------------------
(* computePowerBasisCheby(n, C) called on a cache that holds C[1] only.    *)

\* Largest index the function is called on.
MaxKeyArg == 17

EnsureInit ==
    \E n \in 1..MaxKeyArg, l \in InputLevels :
        /\ fn = [kind |-> "ensure", n |-> n]
        /\ params = [Scale |-> QInt(4), Qi |-> LargeChain]
        /\ op = Ct(l, QInt(4), CReal(Q(1, 2)))
        /\ cheby = Cheby(<<>>, QInt(-1), QInt(1))
        /\ nconst = QInt(2)
        /\ pc = "ensure"
        /\ variant = "none"
        /\ C = (1 :> Ct(l, QInt(4), CReal(Q(1, 2))))
        /\ drv = NoDrv
        /\ pbStack = <<PBFrame(n)>>
        /\ rcStack = <<>>
        /\ ret = NoRet
        /\ result = NoCt
        /\ err = ""
        /\ ops = NoOps
        /\ computed = [k \in {} |-> 0]
        /\ consumed = [fast |-> -1, special |-> -1]

EnsureNext == PBEnter \/ PBCallB \/ PBCallC \/ PBCompute

EnsureSpec == EnsureInit /\ [][EnsureNext]_vars

\* The call has returned.
EnsureDone == pc = "ensure" /\ pbStack = <<>>

CeilSqrt(n) == CHOOSE r \in 0..n : r * r >= n /\ \A q \in 0..(r - 1) : q * q < n

CeilHalf(n) == (n + 1) \div 2

FloorHalf(n) == n \div 2

\* C19: each newly computed entry consumes exactly one level: when C[n] is
\* stored, its level is one below the lower of C[ceil(n/2)] and
\* C[floor(n/2)]; the doubling and the subtraction consume none.
C19_EntryOneLevelBelowOperands ==
    [][\A n \in (DOMAIN C') \ (DOMAIN C) :
          n > 1 =>
            C'[n].level = Min(Get(C, CeilHalf(n)).level,
                              Get(C, FloorHalf(n)).level) - 1]_vars

\* C[3] computed from C[2] and C[1], which are at different levels.
C19_Witness ==
    /\ EnsureDone
    /\ {1, 2, 3} \subseteq DOMAIN C
    /\ Get0(computed, 3) = 1
    /\ C[2].level < C[1].level
    /\ C[3].level = C[2].level - 1

\* C20: a key n > 1 is stored only when the keys ceil(n/2), floor(n/2) and,
\* if it is not 0, their difference are already stored; and the function is
\* never called on index 0.
C20_OperandsStoredFirst ==
    /\ [](\A i \in 1..Len(pbStack) : pbStack[i].n # 0)
    /\ [][\A n \in (DOMAIN C') \ (DOMAIN C) :
             n > 1 =>
               /\ CeilHalf(n) \in DOMAIN C
               /\ FloorHalf(n) \in DOMAIN C
               /\ (CeilHalf(n) - FloorHalf(n) # 0
                     => (CeilHalf(n) - FloorHalf(n)) \in DOMAIN C)]_vars

\* C[7] stored after the call computed C[4], C[3] and C[2] on its way.
C20_Witness ==
    /\ EnsureDone
    /\ fn.n = 7
    /\ {1, 2, 3, 4, 7} \subseteq DOMAIN C
    /\ \A k \in {2, 3, 4, 7} : Get0(computed, k) = 1

---------------------------------------------------------------------------
(* Properties of the polynomials of the recursion.                         *)

\* maxDeg >= degree() for the polynomial p.
FormalCoversActual(p) == ~Lt64(p.maxDeg, degree(p.coeffs))

FormalIsActual(p) == p.maxDeg = degree(p.coeffs)

\* C21: every polynomial an evaluation creates has maxDeg >= degree(): the
\* argument of every call of recurseCheby in progress (the top polynomial,
\* quotients and remainders) and the remainder a call keeps for its second
\* recursive call.
C21_FormalDegreeCoversActual ==
    \A i \in 1..Len(rcStack) :
        /\ FormalCoversActual(rcStack[i])
        /\ (rcStack[i].st = "gotQ" => FormalCoversActual(rcStack[i].coeffsr))

\* A quotient two splits below the top, with maxDeg above its degree.
C21_Witness ==
    /\ Len(rcStack) >= 3
    /\ rcStack[2].st = "gotQ"
    /\ FormalCoversActual(rcStack[3])
    /\ ~FormalIsActual(rcStack[3])

\* Frame i + 1 is the quotient of frame i while that frame waits for it, and
\* its remainder afterwards.
IsQuotientOf(i) == rcStack[i].st = "gotQ"

IsRemainderOf(i) == rcStack[i].st = "gotR"

\* C22 as stated: maxDeg = degree() only for the polynomial at the top:
\* every quotient and every remainder has maxDeg above its degree.
C22_EqualityOnlyAtTop ==
    \A i \in 2..Len(rcStack) : ~FormalIsActual(rcStack[i])

\* C22, amended: every quotient has maxDeg above its degree; a remainder has
\* maxDeg = degree() exactly when the polynomial it was split from has, so
\* equality holds for the top polynomial and along the chain of remainders
\* that starts there, and nowhere else.
C22_EqualityAlongRemainders ==
    \A i \in 1..(Len(rcStack) - 1) :
        /\ IsQuotientOf(i) => ~FormalIsActual(rcStack[i + 1])
        /\ IsRemainderOf(i) =>
              (FormalIsActual(rcStack[i + 1]) <=> FormalIsActual(rcStack[i]))

\* The remainder of the top polynomial, with maxDeg equal to its degree, and
\* below it a quotient with maxDeg above its degree.
C22_Witness ==
    /\ Len(rcStack) >= 3
    /\ FormalIsActual(rcStack[1])
    /\ IsRemainderOf(1)
    /\ FormalIsActual(rcStack[2])
    /\ IsQuotientOf(2)
    /\ ~FormalIsActual(rcStack[3])

---------------------------------------------------------------------------
(* Properties of the population phase of evalCheby.                        *)

\* M = ceil(log2(D + 1)) and the split exponent (M >> 1) - 1 as integers;
\* the exponent is -1 for D <= 1.
TopM == CeilLog2(TopDegree + 1)

TopL == (TopM \div 2) - 1

\* {1} union [2, 2^L) union {2^i : L <= i < M}.
ExpectedKeys ==
    {1} \cup (IF TopL >= 1 THEN 2..(Pow2(TopL) - 1) ELSE {})
        \cup {Pow2(i) : i \in Max(TopL, 0)..(TopM - 1)}

\* The calls of computePowerBasisCheby the two loops have made so far.
DriverCalls ==
    LET baby == IF TopL >= 1 THEN Pow2(TopL) - 2 ELSE 0
    IN  IF pc = "baby" THEN drv.i - 2
        ELSE IF TopL < 0 THEN 0
        ELSE baby + (drv.i - TopL)

\* Between two calls of the loops, or after the last one.
BetweenCalls == pc \in {"baby", "giant"} /\ pbStack = <<>>

PopulationDone == pc = "recurse"

\* C23 as stated: after the population phase the keys of the cache are
\* exactly {1} union [2, 2^L) union {2^i : L <= i < M}, and each call of
\* the two loops has computed exactly one new entry.
C23_OneNewEntryPerCall ==
    /\ PopulationDone => DOMAIN C = ExpectedKeys
    /\ BetweenCalls => Cardinality(DOMAIN C) = 1 + DriverCalls

\* The call on index 1 = 1 << 0 that the second loop makes when L = 0.
CallsOnOne ==
    IF TopL = 0 /\ pc = "giant" /\ drv.i >= 1 THEN 1 ELSE 0

\* C23, amended: after the population phase the keys of the cache are
\* exactly {1} union [2, 2^L) union {2^i : L <= i < M}; each call of the
\* two loops has computed exactly one new entry, except the call on index 1
\* made when L = 0, which computes none.
C23_OneNewEntryPerCallButOne ==
    /\ PopulationDone => DOMAIN C = ExpectedKeys
    /\ BetweenCalls => Cardinality(DOMAIN C) = 1 + DriverCalls - CallsOnOne
    /\ \A k \in DOMAIN computed : computed[k] = 1

\* The population of degree 33 is over: keys 1, 2, 3 and 4, 8, 16, 32.
C23_Witness ==
    /\ PopulationDone
    /\ TopDegree = 33
    /\ DOMAIN C = {1, 2, 3, 4, 8, 16, 32}
    /\ DOMAIN C = ExpectedKeys

FloorLog2(m) == Len64(m) - 1

\* evalCheby is running: logDegree and logSplit are set.
InEvalCheby == pc \in {"baby", "giant", "recurse"}

\* C24 as stated: the split exponent of the driver is
\* (floor(log2(D + 1)) >> 1) - 1, for every degree D >= 2.
C24_SplitExponentFromFloor ==
    (InEvalCheby /\ TopDegree >= 2)
        => drv.logSplit = (FloorLog2(TopDegree + 1) \div 2) - 1

\* C24, amended: the split exponent of the driver is
\* (ceil(log2(D + 1)) >> 1) - 1, for every degree D >= 2.
C24_SplitExponentFromCeil ==
    (InEvalCheby /\ TopDegree >= 2)
        => drv.logSplit = (CeilLog2(TopDegree + 1) \div 2) - 1

\* Degree 8: floor(log2(9)) = 3 gives 0, the driver uses 1.
C24_Witness ==
    /\ InEvalCheby
    /\ TopDegree = 8
    /\ drv.logSplit = 1
    /\ (FloorLog2(TopDegree + 1) \div 2) - 1 = 0

---------------------------------------------------------------------------
(* Properties of the thresholds and of the cache reads of the recursion.   *)

\* recurseCheby is about to call splitCoeffsCheby(coeffs, nextPower).
AtSplit == InRecursion /\ Top(rcStack).st = "split"

\* C25: every threshold nextPower passed to the split of a polynomial of
\* degree deg is a power of two with 2^L <= nextPower,
\* nextPower >= ceil((deg + 1) / 2) and nextPower <= deg, and the split
\* reads and writes within its slices.
C25_ThresholdInRange ==
    AtSplit =>
        LET np == Top(rcStack).nextPower
            deg == degree(Top(rcStack).coeffs)
        IN  /\ \E k \in 0..Len64(np) : np = Pow2(k)
            /\ ~IsHuge(drv.logSplit)
            /\ Pow2(drv.logSplit) <= np
            /\ 2 * np >= deg + 1
            /\ np <= deg
            /\ splitCoeffsCheby(Top(rcStack).coeffs, Top(rcStack).maxDeg,
                                np).err = ""

\* A threshold the loop has raised above 2^L: degree 9 split at 8, L = 1.
C25_Witness ==
    /\ AtSplit
    /\ degree(Top(rcStack).coeffs) = 9
    /\ drv.logSplit = 1
    /\ Top(rcStack).nextPower = 8

---------------------------------------------------------------------------
(* The fixed-point coefficient of the leaf evaluator on bounded inputs.    *)

\* Real and imaginary parts of the coefficients: multiples of 1/8 up to
\* MaxEighths / 8 in magnitude.
MaxEighths == 12

\* const_scale := target_scale * current_qi / current_ct
leafConstScale(target_scale, current_qi, current_ct) ==
    QDiv(QMul(target_scale, current_qi), current_ct)

GaussInputs ==
    [re : {Q(k, 8) : k \in (-MaxEighths)..MaxEighths},
     im : {Q(k, 8) : k \in (-MaxEighths)..MaxEighths},
     current_qi : {QInt(2), QInt(4)},
     current_ct : {QInt(4), QInt(8)}]

GaussInit ==
    \E in \in GaussInputs :
        /\ fn = [kind |-> "input", in |-> in, out |-> [re |-> 0, im |-> 0]]
        /\ params = [Scale |-> QInt(4), Qi |-> <<4>>]
        /\ op = NoCt
        /\ cheby = Cheby(<<>>, QInt(-1), QInt(1))
        /\ nconst = QInt(2)
        /\ pc = "gauss"
        /\ variant = "none"
        /\ C = EmptyMap
        /\ drv = NoDrv
        /\ pbStack = <<>>
        /\ rcStack = <<>>
        /\ ret = NoRet
        /\ result = NoCt
        /\ err = ""
        /\ ops = NoOps
        /\ computed = [k \in {} |-> 0]
        /\ consumed = [fast |-> -1, special |-> -1]

\* cReal and cImag for one coefficient.
ApplyGaussianInteger ==
    /\ pc = "gauss"
    /\ fn.kind = "input"
    /\ fn' = [fn EXCEPT
                !.kind = "gauss",
                !.out = gaussianInteger(
                            Cx(fn.in.re, fn.in.im),
                            leafConstScale(params.Scale, fn.in.current_qi,
                                           fn.in.current_ct))]
    /\ UNCHANGED <<params, op, cheby, nconst, pc, variant, C, drv, pbStack,
                   rcStack, ret, result, err, ops, computed, consumed>>

GaussNext == ApplyGaussianInteger

GaussSpec == GaussInit /\ [][GaussNext]_vars

\* k is an integer nearest to the rational x: |k - x| <= 1/2.
IsNearest(k, x) == 2 * Abs(k * x[2] - x[1]) <= x[2]

\* targetScale * currentModulus / cache[k].scale
ScaleFactor == QDiv(QMul(params.Scale, fn.in.current_qi), fn.in.current_ct)

\* C26: the fixed-point coefficient is Re(c) * scaleFactor and
\* Im(c) * scaleFactor, each rounded to a nearest integer, for positive and
\* negative values alike.
C26_RoundedToNearest ==
    (pc = "gauss" /\ fn.kind = "gauss")
        => /\ IsNearest(fn.out.re, QMul(fn.in.re, ScaleFactor))
           /\ IsNearest(fn.out.im, QMul(fn.in.im, ScaleFactor))

---------------------------------------------------------------------------
(* RefreshProtocol.GenShares.  Polynomials of Z[X]/(X^N + 1) are sequences *)
(* of N residues; a polynomial of the key context has a row modulo Q and a *)
(* row modulo P, a polynomial of the context Q has the row modulo Q only.  *)

\* bfvContext.N()
RefN == 2

\* The modulus of ContextQ and the key-switch prime of ContextPKeys.
RefQ == 5

RefP == 13

\* The plaintext modulus of ContextT.
RefT == 2

\* Primitive 2N-th roots of unity modulo Q and modulo P.
PsiQ == 2

PsiP == 5

\* Largest number of GenShares calls on one instance.
MaxCalls == 2

VecMod(v, q) == [i \in 1..RefN |-> v[i] % q]

VecAdd(x, y, q) == [i \in 1..RefN |-> (x[i] + y[i]) % q]

VecSub(x, y, q) == [i \in 1..RefN |-> (x[i] - y[i]) % q]

\* MulCoeffs: the coefficient-wise product of two polynomials in NTT form.
VecMulCoeffs(x, y, q) == [i \in 1..RefN |-> (x[i] * y[i]) % q]

VecMulScalar(x, k, q) == [i \in 1..RefN |-> (x[i] * k) % q]

VecZero == [i \in 1..RefN |-> 0]

\* Context.NTT and Context.InvNTT modulo q with the root psi.
nttMod(p, q, psi) ==
    [j \in 1..RefN |->
        SumTo([i \in 0..(RefN - 1) |->
                  p[i + 1] * PowMod(psi, ((2 * (j - 1) + 1) * i) % (2 * RefN), q)],
              RefN - 1) % q]

invNttMod(v, q, psi) ==
    [i \in 1..RefN |->
        (InvMod(RefN % q, q)
           * SumTo([j \in 0..(RefN - 1) |->
                       v[j + 1] * PowMod(psi,
                                         (2 * RefN
                                            - (((2 * j + 1) * (i - 1))
                                                 % (2 * RefN)))
                                           % (2 * RefN),
                                         q)],
                   RefN - 1)) % q]

\* FastBasisExtender.ModDown / ModDownSplited: (x - [x mod P]) / P modulo Q,
\* from the row modulo Q and the row modulo P.
modDown(xq, xp) ==
    [i \in 1..RefN |->
        (((xq[i] - (xp[i] % RefP)) % RefQ) * InvMod(RefP % RefQ, RefQ)) % RefQ]

\* lift: the plaintext coefficients times floor(Q / T), modulo Q.
lift(coeffs) == VecMulScalar(coeffs, RefQ \div RefT, RefQ)

\* NewRefreshProtocol: the three scratch polynomials are zero.
NewRefreshProtocol ==
    [tmp1 |-> [q |-> VecZero, p |-> VecZero],
     tmp2 |-> [q |-> VecZero, p |-> VecZero],
     hP |-> VecZero]

\* AllocateShares
AllocateShares == [RefreshShareDecrypt |-> VecZero, RefreshShareRecrypt |-> VecZero]

\* GenShares on the instance rfp: the instance and the share afterwards.
\* sk is in NTT form; in.e and in.e2 are what the sampler draws, in.mask is
\* the uniform plaintext.
GenShares(rfp, sk, in, share) ==
    LET \* h0 = s*ct[1]
        t1a == nttMod(in.ct1, RefQ, PsiQ)
        h0a == VecAdd(share.RefreshShareDecrypt,
                      VecMulCoeffs(sk.q, t1a, RefQ), RefQ)
        h0b == invNttMod(h0a, RefQ, PsiQ)
        \* h0 = s*ct[1]*P
        h0c == VecMulScalar(h0b, RefP, RefQ)
        \* h0 = s*ct[1]*P + e; hP += the rows of e modulo P
        t1b == [q |-> VecMod(in.e, RefQ), p |-> VecMod(in.e, RefP)]
        h0d == VecAdd(h0c, t1b.q, RefQ)
        hP == [i \in 1..RefN |-> rfp.hP[i] + t1b.p[i]]
        \* h0 = (s*ct[1]*P + e)/P
        h0e == modDown(h0d, hP)
        \* h1 = -s*a
        t1c == [q |-> nttMod(VecMod(in.crs, RefQ), RefQ, PsiQ),
                p |-> nttMod(VecMod(in.crs, RefP), RefP, PsiP)]
        t2a == [q |-> VecSub(rfp.tmp2.q, VecMulCoeffs(sk.q, t1c.q, RefQ), RefQ),
                p |-> VecSub(rfp.tmp2.p, VecMulCoeffs(sk.p, t1c.p, RefP), RefP)]
        t2b == [q |-> invNttMod(t2a.q, RefQ, PsiQ),
                p |-> invNttMod(t2a.p, RefP, PsiP)]
        \* h1 = -s*a + e'
        t2c == [q |-> VecAdd(t2b.q, VecMod(in.e2, RefQ), RefQ),
                p |-> VecAdd(t2b.p, VecMod(in.e2, RefP), RefP)]
        \* h1 = (-s*a + e')/P
        h1a == modDown(t2c.q, t2c.p)
        \* mask
        t1d == [q |-> lift(in.mask), p |-> t1c.p]
    IN  [rfp |-> [tmp1 |-> t1d, tmp2 |-> t2c, hP |-> hP],
         share |-> [RefreshShareDecrypt |-> VecAdd(h0e, t1d.q, RefQ),
                    RefreshShareRecrypt |-> VecSub(h1a, t1d.q, RefQ)]]

\* The secret key s in NTT form, in the key context.
SecretKeys ==
    {[q |-> nttMod(VecMod(sv, RefQ), RefQ, PsiQ),
      p |-> nttMod(VecMod(sv, RefP), RefP, PsiP)] : sv \in {<<1, 0>>, <<1, 1>>}}

RefreshInputs ==
    [ct1 : {<<1, 2>>, <<3, 0>>},
     crs : {<<7, 20>>, <<0, 1>>},
     e : {<<1, 0>>, <<0, -1>>},
     e2 : {<<0, 1>>, <<-1, 0>>},
     mask : {<<0, 1>>, <<1, 1>>}]

RefreshInit ==
    \E sk \in SecretKeys :
        /\ fn = [kind |-> "new", sk |-> sk, rfp |-> NewRefreshProtocol,
                 calls |-> 0, in |-> <<>>, share |-> AllocateShares]
        /\ params = [Scale |-> QInt(4), Qi |-> <<4>>]
        /\ op = NoCt
        /\ cheby = Cheby(<<>>, QInt(-1), QInt(1))
        /\ nconst = QInt(2)
        /\ pc = "refresh"
        /\ variant = "none"
        /\ C = EmptyMap
        /\ drv = NoDrv
        /\ pbStack = <<>>
        /\ rcStack = <<>>
        /\ ret = NoRet
        /\ result = NoCt
        /\ err = ""
        /\ ops = NoOps
        /\ computed = [k \in {} |-> 0]
        /\ consumed = [fast |-> -1, special |-> -1]

\* One call rfp.GenShares(sk, ciphertext, crs, rfp.AllocateShares()).
ApplyGenShares ==
    /\ pc = "refresh"
    /\ fn.calls < MaxCalls
    /\ \E in \in RefreshInputs :
          LET out == GenShares(fn.rfp, fn.sk, in, AllocateShares)
          IN  fn' = [fn EXCEPT !.kind = "GenShares", !.rfp = out.rfp,
                               !.calls = @ + 1, !.in = in,
                               !.share = out.share]
    /\ UNCHANGED <<params, op, cheby, nconst, pc, variant, C, drv, pbStack,
                   rcStack, ret, result, err, ops, computed, consumed>>

RefreshNext == ApplyGenShares

RefreshSpec == RefreshInit /\ [][RefreshNext]_vars

\* C27: after every GenShares call with a freshly allocated share, the
\* second and later calls on the same instance included, the share is what
\* the call computes from its own inputs and samples on scratch polynomials
\* that carry nothing from earlier calls.
C27_ShareFromThisCallOnly ==
    (pc = "refresh" /\ fn.kind = "GenShares")
        => fn.share = GenShares(NewRefreshProtocol, fn.sk, fn.in,
                                AllocateShares).share

---------------------------------------------------------------------------
(* Properties of the scales at the merge of recurseCheby.                  *)

\* The first operand of the evaluator.Add of the merge: res after MulRelin,
\* rescaled first when its level is above the level of tmp.
MergeAddend ==
    IF MergeProduct.level > ret.ct.level THEN Rescale(MergeProduct)
    ELSE MergeProduct

\* C28: at every merge of the recursive evaluator the two operands of the
\* addition carry the same scale.
C28_MergeAddsEqualScales ==
    (AtMerge /\ MergeProduct.err = "" /\ ret.ct.err = ""
        /\ MergeAddend.err = "")
        => MergeAddend.scale = ret.ct.scale

---------------------------------------------------------------------------
(* Properties of the cache reads of the recursion.                         *)

\* The keys k >= 1 the frame on top of the recursion reads next: C[nextPower]
\* at a merge, C[k] for 1 <= k <= coeffs.degree() in a leaf.
KeysRead ==
    IF AtMerge THEN {Top(rcStack).nextPower}
    ELSE IF AtLeaf THEN 1..degree(Top(rcStack).coeffs)
    ELSE {}

\* C29: every cache key k >= 1 read during the recursion was populated by
\* the two loops of the driver before the recursion started: the key is in
\* the cache when it is read, and the recursion never writes the cache.
C29_ReadsArePopulated ==
    /\ [](InRecursion => KeysRead \subseteq DOMAIN C)
    /\ [][pc = "recurse" => C' = C]_vars

\* A merge that reads the largest power of the giant loop.
C29_Witness ==
    /\ AtMerge
    /\ Top(rcStack).nextPower = 8
    /\ drv.logSplit = 1
    /\ 8 \in DOMAIN C

---------------------------------------------------------------------------
(* encoderComplex128: the scratch buffers values and valuesfloat.  With    *)
(* z = e^(2 pi i / m) and m = 2N = 8, a complex128 is the exact number     *)
(* a + b z + c z^2 + d z^3 (four rationals, z^4 = -1) and a float64 is the *)
(* exact number p + q sqrt(2) (two rationals); floating-point rounding is  *)
(* left out.                                                               *)

\* m := 2 * params.N()
EncM == 2 * RingN

CycZero == [k \in 1..RingN |-> QZero]

\* complex(re, im) of two rationals: i = z^(m/4).
CycComplex(re, im) ==
    [k \in 1..RingN |->
        IF k = 1 THEN re ELSE IF k = (EncM \div 4) + 1 THEN im ELSE QZero]

CycAdd(x, y) == [k \in 1..RingN |-> QAdd(x[k], y[k])]

CycSub(x, y) == [k \in 1..RingN |-> QSub(x[k], y[k])]

\* x * z
CycTimesZ(x) ==
    [k \in 1..RingN |-> IF k = 1 THEN QNeg(x[RingN]) ELSE x[k - 1]]

\* x * roots[idx], roots[idx] = z^idx and roots[m] = roots[0].
RECURSIVE CycTimesRoot(_, _)
CycTimesRoot(x, idx) ==
    IF idx = 0 THEN x ELSE CycTimesRoot(CycTimesZ(x), idx - 1)

\* x / complex(float64(n), 0)
CycDiv(x, n) == [k \in 1..RingN |-> QDiv(x[k], QInt(n))]

RealZero == <<QZero, QZero>>

\* real(x) and imag(x) for m = 8: cos(pi/4) = sin(pi/4) = sqrt(2)/2.
real(x) == <<x[1], QDiv(QSub(x[2], x[4]), QInt(2))>>

imag(x) == <<x[3], QDiv(QAdd(x[2], x[4]), QInt(2))>>

\* p + q sqrt(2) >= 0
RealNonNeg(x) ==
    LET a == x[1]
        b == x[2]
        a2 == QMul(a, a)
        b2 == QMul(QInt(2), QMul(b, b))
    IN  IF ~QLt(a, QZero) /\ ~QLt(b, QZero) THEN TRUE
        ELSE IF ~QLt(QZero, a) /\ ~QLt(QZero, b) THEN FALSE
        ELSE IF QLt(b, QZero) THEN ~QLt(a2, b2)
        ELSE ~QLt(b2, a2)

\* The integer nearest to x: floor(x + 1/2).
RoundReal(x) ==
    LET y == <<QAdd(x[1], Q(1, 2)), x[2]>>
        base == QTrunc(y[1])
        span == 2 * Abs(QTrunc(y[2])) + 4
    IN  CHOOSE k \in (base - span)..(base + span) :
            /\ RealNonNeg(<<QSub(y[1], QInt(k)), y[2]>>)
            /\ ~RealNonNeg(<<QSub(y[1], QInt(k + 1)), y[2]>>)

\* rotGroup[j]: fivePows after j rounds of *= GaloisGen; &= (m - 1).
rotGroup(j) == PowMod(GaloisGen, j, EncM)

\* sliceBitReverseInPlaceComplex128(values, N): the first N entries are
\* permuted by the reversal of their index bits.
sliceBitReverse(values, N) ==
    [k \in 1..Len(values) |->
        IF k - 1 < N THEN values[BitReverse64(k - 1, Len64(N) - 1) + 1]
        ELSE values[k]]

\* One pass of the outer loop of invfft, for one len.
invfftPass(values, N, len) ==
    LET lenh == len \div 2
        lenq == len * 4
        gap == EncM \div lenq
    IN  [k \in 1..Len(values) |->
            LET pos == (k - 1) % len
            IN  IF k - 1 >= N \/ lenh = 0 THEN values[k]
                ELSE IF pos < lenh
                THEN CycAdd(values[k], values[k + lenh])
                ELSE CycTimesRoot(CycSub(values[k - lenh], values[k]),
                                  (lenq - (rotGroup(pos - lenh) % lenq)) * gap)]

RECURSIVE invfftLoop(_, _, _)
invfftLoop(values, N, len) ==
    IF len < 1 THEN values
    ELSE invfftLoop(invfftPass(values, N, len), N, len \div 2)

invfft(values, N) ==
    LET looped == invfftLoop(values, N, N)
        divided == [k \in 1..Len(values) |->
                       IF k - 1 < N THEN CycDiv(looped[k], N) ELSE looped[k]]
    IN  sliceBitReverse(divided, N)

\* One pass of the outer loop of fft, for one len.
fftPass(values, N, len) ==
    LET lenh == len \div 2
        lenq == len * 4
        gap == EncM \div lenq
    IN  [k \in 1..Len(values) |->
            LET pos == (k - 1) % len
            IN  IF k - 1 >= N THEN values[k]
                ELSE IF pos < lenh
                THEN CycAdd(values[k],
                            CycTimesRoot(values[k + lenh],
                                         (rotGroup(pos) % lenq) * gap))
                ELSE CycSub(values[k - lenh],
                            CycTimesRoot(values[k],
                                         (rotGroup(pos - lenh) % lenq) * gap))]

RECURSIVE fftLoop(_, _, _)
fftLoop(values, N, len) ==
    IF len > N THEN values
    ELSE fftLoop(fftPass(values, N, len), N, len * 2)

fft(values, N) == fftLoop(sliceBitReverse(values, N), N, 2)

\* encoder.ringQ.Modulus
ringQModulus == <<17, 13>>

\* Largest number of calls on one encoder.
MaxEncoderCalls == 2

\* NewEncoder: values has m/4 entries and valuesfloat m/2, all zero.
NewEncoder ==
    [values |-> [k \in 1..(EncM \div 4) |-> CycZero],
     valuesfloat |-> [k \in 1..(EncM \div 2) |-> RealZero]]

\* A plaintext of NewPlaintextCKKS with its coefficients, one row for each
\* modulus of its level.
NewPlaintextValue(level, scale) ==
    [value |-> [j \in 1..(level + 1) |-> [k \in 1..RingN |-> 0]]]
        @@ NewPlaintextCKKS(level, scale, TRUE)

\* EmbedComplex(values, logSlots): the encoder afterwards.
EmbedComplex(encoder, values, logSlots) ==
    LET slots == Pow2(logSlots)
        copied == [k \in 1..Len(encoder.values) |->
                      IF k <= Len(values) THEN values[k]
                      ELSE encoder.values[k]]
        embedded == invfft(copied, slots)
        gap == (RingN \div 2) \div slots
        half == RingN \div 2
    IN  [values |-> embedded,
         valuesfloat |->
            [k \in 1..Len(encoder.valuesfloat) |->
                IF k - 1 < half /\ (k - 1) % gap = 0
                THEN real(embedded[((k - 1) \div gap) + 1])
                ELSE IF k - 1 >= half /\ (k - 1 - half) % gap = 0
                THEN imag(embedded[((k - 1 - half) \div gap) + 1])
                ELSE encoder.valuesfloat[k]]]

\* scaleUpVecExact(values, scale, moduli, coeffs): every value times the
\* scale, rounded, modulo each modulus.
scaleUpVecExact(values, scale, moduli) ==
    [j \in 1..Len(moduli) |->
        [k \in 1..Len(values) |->
            RoundReal(<<QMul(values[k][1], scale), QMul(values[k][2], scale)>>)
                % moduli[j]]]

\* CKKSScaleUp(pol, scale, moduli)
CKKSScaleUp(encoder, scale, moduli) ==
    scaleUpVecExact(encoder.valuesfloat, scale, moduli)

\* WipeInternalMemory
WipeInternalMemory(encoder) ==
    [values |-> [k \in 1..Len(encoder.values) |-> CycZero],
     valuesfloat |-> [k \in 1..Len(encoder.valuesfloat) |-> RealZero]]

\* encoderComplex128.EncodeComplex(plaintext, values, logSlots) with the
\* coefficients it writes: the encoder and the plaintext afterwards.
EncodeComplexValues(encoder, plaintext, values, logSlots) ==
    IF embedPanics("encoderComplex128", Len(values), logSlots)
    THEN [encoder |-> encoder,
          plaintext |-> [plaintext EXCEPT !.err = "cannot Encode"]]
    ELSE LET embedded == EmbedComplex(encoder, values, logSlots)
             moduli == SubSeq(ringQModulus, 1, plaintext.level + 1)
         IN  [encoder |-> WipeInternalMemory(embedded),
              plaintext |->
                  [plaintext EXCEPT
                      !.value = CKKSScaleUp(embedded, plaintext.scale, moduli),
                      !.rows = plaintext.level + 1,
                      !.isNTT = FALSE]]

\* GetErrSTDFreqDom(valuesWant, valuesHave, scale): the encoder afterwards;
\* the deviation it returns does not enter the encoder.
GetErrSTDFreqDom(encoder, valuesWant, valuesHave) ==
    [encoder EXCEPT !.valuesfloat =
        [k \in 1..Len(encoder.valuesfloat) |->
            LET i == (k - 1) \div 2
            IN  IF i >= Len(valuesWant) THEN encoder.valuesfloat[k]
                ELSE IF (k - 1) % 2 = 0
                THEN real(CycSub(valuesWant[i + 1], valuesHave[i + 1]))
                ELSE imag(CycSub(valuesWant[i + 1], valuesHave[i + 1]))]]

\* GetErrSTDTimeDom(valuesWant, valuesHave, scale): the encoder afterwards.
GetErrSTDTimeDom(encoder, valuesWant, valuesHave) ==
    LET copied == [k \in 1..Len(encoder.values) |->
                      IF k <= Len(valuesHave)
                      THEN CycSub(valuesWant[k], valuesHave[k])
                      ELSE encoder.values[k]]
        transformed == invfft(copied, Len(valuesWant))
    IN  [values |-> transformed,
         valuesfloat |->
            [k \in 1..Len(encoder.valuesfloat) |->
                LET i == (k - 1) \div 2
                IN  IF i >= Len(valuesWant) THEN encoder.valuesfloat[k]
                    ELSE IF (k - 1) % 2 = 0 THEN real(transformed[i + 1])
                    ELSE imag(transformed[i + 1])]]

\* The coefficient idx of the polynomial as an integer centred around the
\* product of the moduli of the level (PolyToBigint, then the value minus Q
\* when it is at least Q >> 1).
centredCoeff(value, level, idx) ==
    LET RECURSIVE prod(_)
        prod(j) == IF j = 0 THEN 1 ELSE ringQModulus[j] * prod(j - 1)
        bigQ == prod(level + 1)
        x == CHOOSE y \in 0..(bigQ - 1) :
                \A j \in 1..(level + 1) : y % ringQModulus[j] = value[j][idx + 1]
    IN  IF x >= bigQ \div 2 THEN x - bigQ ELSE x

\* plaintextToComplex(level, scale, logSlots, p, values)
plaintextToComplex(level, scale, logSlots, value, values) ==
    LET slots == Pow2(logSlots)
        maxSlots == RingN \div 2
        gap == maxSlots \div slots
    IN  [k \in 1..Len(values) |->
            IF k - 1 >= slots THEN values[k]
            ELSE CycComplex(
                    QDiv(QInt(centredCoeff(value, level, (k - 1) * gap)), scale),
                    QDiv(QInt(centredCoeff(value, level,
                                           (k - 1) * gap + maxSlots)), scale))]

\* decodeComplexPublic(plaintext, logSlots, 0) on a plaintext out of the NTT
\* domain: the slots it returns and the encoder afterwards.
decodeComplexPublic(encoder, plaintext, logSlots) ==
    LET slots == Pow2(logSlots)
        read == plaintextToComplex(plaintext.level, plaintext.scale, logSlots,
                                   plaintext.value, encoder.values)
        transformed == fft(read, slots)
    IN  [res |-> SubSeq(transformed, 1, slots),
         encoder |-> [encoder EXCEPT !.values =
                         [k \in 1..Len(encoder.values) |-> CycZero]]]

\* The slot values of the calls.
SlotValues == {CycComplex(QInt(1), QInt(0)), CycComplex(QInt(0), QInt(1))}

SlotSeqs(lo, hi) ==
    UNION {[1..n -> SlotValues] : n \in lo..hi}

EncodeArgs ==
    {a \in [values : SlotSeqs(0, RingN \div 2), logSlots : 0..(LogN - 1),
            level : 0..(Len(ringQModulus) - 1), scale : {QInt(4)}] :
        Len(a.values) <= Pow2(a.logSlots)}

ErrArgs ==
    {a \in [valuesWant : SlotSeqs(1, RingN \div 2),
            valuesHave : SlotSeqs(1, RingN \div 2)] :
        Len(a.valuesWant) = Len(a.valuesHave)}

EncoderInit ==
    /\ fn = [kind |-> "NewEncoder", encoder |-> NewEncoder, calls |-> 0,
             args |-> <<>>, plaintext |-> NewPlaintextValue(0, QInt(4)),
             res |-> <<>>]
    /\ params = [Scale |-> QInt(4), Qi |-> <<4>>]
    /\ op = NoCt
    /\ cheby = Cheby(<<>>, QInt(-1), QInt(1))
    /\ nconst = QInt(2)
    /\ pc = "encoder"
    /\ variant = "none"
    /\ C = EmptyMap
    /\ drv = NoDrv
    /\ pbStack = <<>>
    /\ rcStack = <<>>
    /\ ret = NoRet
    /\ result = NoCt
    /\ err = ""
    /\ ops = NoOps
    /\ computed = [k \in {} |-> 0]
    /\ consumed = [fast |-> -1, special |-> -1]

\* encoder.EncodeComplex(NewPlaintextCKKS(params, level, scale), values, logSlots)
ApplyEncodeComplex ==
    /\ pc = "encoder"
    /\ fn.calls < MaxEncoderCalls
    /\ \E a \in EncodeArgs :
          LET out == EncodeComplexValues(fn.encoder,
                                         NewPlaintextValue(a.level, a.scale),
                                         a.values, a.logSlots)
          IN  fn' = [fn EXCEPT !.kind = "EncodeComplex", !.calls = @ + 1,
                               !.args = a, !.encoder = out.encoder,
                               !.plaintext = out.plaintext]
    /\ UNCHANGED <<params, op, cheby, nconst, pc, variant, C, drv, pbStack,
                   rcStack, ret, result, err, ops, computed, consumed>>

\* encoder.DecodeComplex(plaintext, logSlots) on the last plaintext encoded.
ApplyDecodeComplex ==
    /\ pc = "encoder"
    /\ fn.calls < MaxEncoderCalls
    /\ ~fn.plaintext.isNTT
    /\ \E logSlots \in 0..(LogN - 1) :
          LET out == decodeComplexPublic(fn.encoder, fn.plaintext, logSlots)
          IN  fn' = [fn EXCEPT !.kind = "DecodeComplex", !.calls = @ + 1,
                               !.args = [logSlots |-> logSlots],
                               !.encoder = out.encoder, !.res = out.res]
    /\ UNCHANGED <<params, op, cheby, nconst, pc, variant, C, drv, pbStack,
                   rcStack, ret, result, err, ops, computed, consumed>>

ApplyGetErrSTDFreqDom ==
    /\ pc = "encoder"
    /\ fn.calls < MaxEncoderCalls
    /\ \E a \in ErrArgs :
          fn' = [fn EXCEPT !.kind = "GetErrSTDFreqDom", !.calls = @ + 1,
                           !.args = a,
                           !.encoder = GetErrSTDFreqDom(fn.encoder,
                                           a.valuesWant, a.valuesHave)]
    /\ UNCHANGED <<params, op, cheby, nconst, pc, variant, C, drv, pbStack,
                   rcStack, ret, result, err, ops, computed, consumed>>

ApplyGetErrSTDTimeDom ==
    /\ pc = "encoder"
    /\ fn.calls < MaxEncoderCalls
    /\ \E a \in ErrArgs :
          fn' = [fn EXCEPT !.kind = "GetErrSTDTimeDom", !.calls = @ + 1,
                           !.args = a,
                           !.encoder = GetErrSTDTimeDom(fn.encoder,
                                           a.valuesWant, a.valuesHave)]
    /\ UNCHANGED <<params, op, cheby, nconst, pc, variant, C, drv, pbStack,
                   rcStack, ret, result, err, ops, computed, consumed>>

EncoderNext ==
    \/ ApplyEncodeComplex
    \/ ApplyDecodeComplex
    \/ ApplyGetErrSTDFreqDom
    \/ ApplyGetErrSTDTimeDom

EncoderSpec == EncoderInit /\ [][EncoderNext]_vars

\* The plaintext a new encoder produces from the arguments of the last call.
FreshPlaintext ==
    EncodeComplexValues(NewEncoder,
                        NewPlaintextValue(fn.args.level, fn.args.scale),
                        fn.args.values, fn.args.logSlots).plaintext

\* C30: the plaintext EncodeComplex produces depends on its arguments only:
\* after any sequence of EncodeComplex, DecodeComplex, GetErrSTDFreqDom and
\* GetErrSTDTimeDom calls it is the plaintext a new encoder produces from
\* the same arguments.
C30_PlaintextFromArgumentsOnly ==
    (pc = "encoder" /\ fn.kind = "EncodeComplex")
        => fn.plaintext = FreshPlaintext

===========================================================================
